---- MODULE Spec2Model ----
(***************************************************************************)
(* Dialect-adaptation layer of the gf ORM: the ClickHouse driver           *)
(* (contrib/drivers/clickhouse/clickhouse.go) and the PostgreSQL driver    *)
(* (contrib/drivers/pgsql/pgsql.go).                                       *)
(*                                                                         *)
(* SQL text is a sequence of one-character strings, so that the regular    *)
(* expressions of the drivers are modelled character by character.  The    *)
(* state is that of one driver call at a time: the handler being run, the  *)
(* context it was given and the one it derived, its inputs, its outputs    *)
(* and the log of the calls it made to its collaborators (link,            *)
(* transaction, prepared statement, core).                                 *)
(***************************************************************************)
EXTENDS Integers, Sequences, FiniteSets, TLC

VARIABLES
    op,      \* the handler that ran last
    pc,      \* position inside the handler ("done" when it has returned)
    ctxIn,   \* the context the caller passed
    ctx,     \* the context the handler derived and passed to nested calls
    in,      \* the inputs of the call
    out,     \* what the call returned
    events,  \* the calls made to collaborators during this call, in order
    idx      \* loop counter of the running handler

vars == <<op, pc, ctxIn, ctx, in, out, events, idx>>

(***************************************************************************)
(* Bounds of the model.                                                    *)
(***************************************************************************)
MaxPlaceholders == 2   \* bound placeholders per generated statement
MaxRows == 3           \* rows of a batch insert
MaxRecords == 2        \* records returned by a RETURNING insert

(***************************************************************************)
(* Characters and character classes of Go's regexp (RE2) syntax.           *)
(***************************************************************************)
LowerLetters == <<"a","b","c","d","e","f","g","h","i","j","k","l","m","n","o","p","q","r","s","t","u","v","w","x","y","z">>
UpperLetters == <<"A","B","C","D","E","F","G","H","I","J","K","L","M","N","O","P","Q","R","S","T","U","V","W","X","Y","Z">>
DigitChars == <<"0","1","2","3","4","5","6","7","8","9">>

Range(s) == {s[i] : i \in 1..Len(s)}

\* Body applied to the value of v: v is evaluated once, however often Body
\* reads it
With(v, Body(_)) == CHOOSE y \in {Body(x) : x \in {v}} : TRUE

SpaceSet == {" ", "\t", "\n", "\r"}
DigitSet == Range(DigitChars)
LowerSet == Range(LowerLetters)
UpperSet == Range(UpperLetters)
WordSet == LowerSet \cup UpperSet \cup DigitSet \cup {"_"}

\* \s
IsSpace(c) == c \in SpaceSet
\* \d
IsDigit(c) == c \in DigitSet
\* \w
IsWord(c) == c \in WordSet
\* [^\w\d]
IsNonWord(c) == ~IsWord(c) /\ ~IsDigit(c)

\* strings.ToUpper on one character
ToUpperChar(c) ==
    IF c \in LowerSet
    THEN UpperLetters[CHOOSE i \in 1..Len(LowerLetters) : LowerLetters[i] = c]
    ELSE c

\* strings.ToUpper
ToUpper(s) == [i \in 1..Len(s) |-> ToUpperChar(s[i])]

\* the text s holds the literal lit at position i
HasAt(s, i, lit) ==
    /\ i >= 1
    /\ i + Len(lit) - 1 <= Len(s)
    /\ \A j \in 1..Len(lit) : s[i + j - 1] = lit[j]

\* the same under the (?i) flag; lit is given in upper case
HasAtFold(s, i, lit) ==
    /\ i >= 1
    /\ i + Len(lit) - 1 <= Len(s)
    /\ \A j \in 1..Len(lit) : ToUpperChar(s[i + j - 1]) = lit[j]

\* strings.Contains
Contains(s, lit) == \E i \in 1..(Len(s) + 1) : HasAt(s, i, lit)

\* the position after the longest run of characters of class C starting at i
RunEnd(s, i, C(_)) ==
    IF i > Len(s) THEN i
    ELSE CHOOSE e \in i..(Len(s) + 1) :
             /\ \A j \in i..(e - 1) : C(s[j])
             /\ (e = Len(s) + 1 \/ ~C(s[e]))

\* s[lo .. hi-1]
Slice(s, lo, hi) == SubSeq(s, lo, hi - 1)

\* strings.TrimSpace
TrimSpace(s) ==
    With(RunEnd(s, 1, IsSpace), LAMBDA lo :
        IF lo > Len(s) THEN << >>
        ELSE SubSeq(s, lo, CHOOSE h \in lo..Len(s) :
                               /\ ~IsSpace(s[h])
                               /\ \A j \in (h + 1)..Len(s) : IsSpace(s[j])))

\* fmt.Sprintf("%d", n) for n >= 0
RECURSIVE Itoa(_)
Itoa(n) ==
    IF n < 10 THEN <<DigitChars[n + 1]>>
    ELSE Itoa(n \div 10) \o <<DigitChars[(n % 10) + 1]>>

(***************************************************************************)
(* Errors and results.                                                     *)
(***************************************************************************)
Err(msg, detail) == [msg |-> msg, detail |-> detail]
NilErr == Err("nil", << >>)

NilResult == [kind |-> "nil", affected |-> 0, lastInsertId |-> 0, lastInsertIdError |-> NilErr]

errUnsupportedInsertIgnore == Err("unsupported method:InsertIgnore", << >>)
errUnsupportedInsertGetId == Err("unsupported method:InsertGetId", << >>)
errUnsupportedReplace == Err("unsupported method:Replace", << >>)
errUnsupportedBegin == Err("unsupported method:Begin", << >>)
errUnsupportedTransaction == Err("unsupported method:Transaction", << >>)

\* what a call hands back: the statement and arguments (DoFilter), the
\* result and the error
Out(sql, args, result, err) ==
    [sql |-> sql, args |-> args, result |-> result, err |-> err, records |-> << >>]
NoOut == Out(<< >>, << >>, NilResult, NilErr)

\* one call to a collaborator
Event(call, text, args, ok) == [call |-> call, text |-> text, args |-> args, ok |-> ok]

(***************************************************************************)
(* Placeholder conversion shared by both drivers:                          *)
(*   gregex.ReplaceStringFunc(`\?`, sql, func ... fmt.Sprintf(`$%d`, index))*)
(***************************************************************************)
\* the first position from i on that satisfies Hit, or 0
FirstFrom(s, i, Hit(_)) ==
    IF \E k \in i..Len(s) : Hit(k)
    THEN CHOOSE k \in i..Len(s) : Hit(k) /\ \A j \in i..(k - 1) : ~Hit(j)
    ELSE 0

RECURSIVE ConvertPlaceholderFrom(_, _, _)
ConvertPlaceholderFrom(s, i, index) ==
    With(FirstFrom(s, i, LAMBDA k : s[k] = "?"),
         LAMBDA k :
            IF k = 0 THEN SubSeq(s, i, Len(s))
            ELSE SubSeq(s, i, k - 1) \o <<"$">> \o Itoa(index + 1)
                 \o ConvertPlaceholderFrom(s, k + 1, index + 1))

ConvertPlaceholder(sql) == With(sql, LAMBDA s : ConvertPlaceholderFrom(s, 1, 0))

(***************************************************************************)
(* The regular expressions of the ClickHouse driver.  A match is a record  *)
(* [ok, end, lo, hi]: end is the position after the match, lo..hi-1 the    *)
(* submatch s[1] of the pattern.                                           *)
(***************************************************************************)
NoMatch == [ok |-> FALSE, end |-> 0, lo |-> 0, hi |-> 0]

kwUPDATE == <<"U","P","D","A","T","E">>
kwDELETE == <<"D","E","L","E","T","E">>
kwFROM == <<"F","R","O","M">>
kwSET == <<"S","E","T">>

\* (\w+[\.]?\w+) matched at lo and followed by whatever comes next: the
\* position after the group, or 0 when the group does not match.  The first
\* \w+ takes the whole run of word characters; a dot is taken when a word
\* character follows it; without a dot the two \w+ share the run, which
\* then needs two characters.
TableGroupEnd(s, lo) ==
    With(RunEnd(s, lo, IsWord), LAMBDA w1 :
        IF /\ w1 > lo
           /\ w1 + 1 <= Len(s)
           /\ s[w1] = "."
           /\ IsWord(s[w1 + 1])
        THEN RunEnd(s, w1 + 1, IsWord)
        ELSE IF w1 - lo >= 2 THEN w1
        ELSE 0)

\* updateFilterPattern = `(?i)UPDATE[\s]+?(\w+[\.]?\w+)[\s]+?SET`, matched at i
updateFilterPattern(s, i) ==
    IF ~HasAtFold(s, i, kwUPDATE) THEN NoMatch
    ELSE With(RunEnd(s, i + Len(kwUPDATE), IsSpace), LAMBDA sp :
         With(TableGroupEnd(s, sp), LAMBDA ge :
         With(IF ge = 0 THEN 0 ELSE RunEnd(s, ge, IsSpace), LAMBDA sp2 :
            IF /\ sp > i + Len(kwUPDATE)
               /\ ge # 0
               /\ sp2 > ge
               /\ HasAtFold(s, sp2, kwSET)
            THEN [ok |-> TRUE, end |-> sp2 + Len(kwSET), lo |-> sp, hi |-> ge]
            ELSE NoMatch)))

\* deleteFilterPattern = `(?i)DELETE[\s]+?FROM[\s]+?(\w+[\.]?\w+)`, matched at i
deleteFilterPattern(s, i) ==
    IF ~HasAtFold(s, i, kwDELETE) THEN NoMatch
    ELSE With(RunEnd(s, i + Len(kwDELETE), IsSpace), LAMBDA sp :
         With(RunEnd(s, sp + Len(kwFROM), IsSpace), LAMBDA sp2 :
         With(TableGroupEnd(s, sp2), LAMBDA ge :
            IF /\ sp > i + Len(kwDELETE)
               /\ HasAtFold(s, sp, kwFROM)
               /\ sp2 > sp + Len(kwFROM)
               /\ ge # 0
            THEN [ok |-> TRUE, end |-> ge, lo |-> sp2, hi |-> ge]
            ELSE NoMatch)))

\* filterTypePattern = `(?i)^UPDATE|DELETE`: the text of the leftmost match
\* in s (modeRes[0]), or the empty text when there is none (len(modeRes) == 0)
filterTypePattern(s) ==
    With(FirstFrom(s, 1, LAMBDA k : \/ (k = 1 /\ HasAtFold(s, k, kwUPDATE))
                                    \/ HasAtFold(s, k, kwDELETE)),
         LAMBDA k : IF k # 0 THEN Slice(s, k, k + Len(kwUPDATE)) ELSE << >>)

\* the replacement functions handed to gregex.ReplaceStringFuncMatch
UpdateReplacement(s, m) == <<"A","L","T","E","R"," ","T","A","B","L","E"," ">> \o Slice(s, m.lo, m.hi) \o <<" ","U","P","D","A","T","E">>
DeleteReplacement(s, m) == <<"A","L","T","E","R"," ","T","A","B","L","E"," ">> \o Slice(s, m.lo, m.hi) \o <<" ","D","E","L","E","T","E">>

\* gregex.ReplaceStringFuncMatch(updateFilterPattern, ...): every match,
\* left to right, is replaced
RECURSIVE ReplaceUpdateFrom(_, _)
ReplaceUpdateFrom(s, i) ==
    With(FirstFrom(s, i, LAMBDA k : updateFilterPattern(s, k).ok),
         LAMBDA k :
            IF k = 0 THEN SubSeq(s, i, Len(s))
            ELSE With(updateFilterPattern(s, k),
                      LAMBDA m : SubSeq(s, i, k - 1) \o UpdateReplacement(s, m) \o ReplaceUpdateFrom(s, m.end)))

RECURSIVE ReplaceDeleteFrom(_, _)
ReplaceDeleteFrom(s, i) ==
    With(FirstFrom(s, i, LAMBDA k : deleteFilterPattern(s, k).ok),
         LAMBDA k :
            IF k = 0 THEN SubSeq(s, i, Len(s))
            ELSE With(deleteFilterPattern(s, k),
                      LAMBDA m : SubSeq(s, i, k - 1) \o DeleteReplacement(s, m) \o ReplaceDeleteFrom(s, m.end)))

(***************************************************************************)
(* Contexts.  A context maps the keys it holds to their values; a key it   *)
(* does not hold reads as nil.                                             *)
(***************************************************************************)
Nil == "nil"
needParsedSqlInCtx == "NeedParsedSql"
internalPrimaryKeyInCtx == "primary_key"

\* ctx.Value(key) != nil
CtxHas(c, key) == key \in DOMAIN c

\* ctx.Value(key), read where it is not nil
CtxValue(c, key) == c[key]

\* context.WithValue(ctx, key, value)
WithValue(c, key, value) == [k \in DOMAIN c \cup {key} |-> IF k = key THEN value ELSE c[k]]

EmptyCtx == [k \in {} |-> Nil]

\* Driver.injectNeedParsedSql
injectNeedParsedSql(c) ==
    IF CtxHas(c, needParsedSqlInCtx) THEN c
    ELSE WithValue(c, needParsedSqlInCtx, TRUE)

\* a reading of the flag that finds it in every context
FlagAlwaysFound(c) == TRUE

\* Driver.getNeedParsedSqlFromCtx
getNeedParsedSqlFromCtx(c) ==
    IF CtxHas(c, needParsedSqlInCtx) THEN TRUE ELSE FALSE

(***************************************************************************)
(* ClickHouse Driver.DoFilter: the pair [sql, args, err] it returns.       *)
(***************************************************************************)
ChDoFilter(c, originSql, args) ==
    IF Len(args) = 0 THEN [sql |-> originSql, args |-> args, err |-> NilErr]
    ELSE
    With(ConvertPlaceholder(originSql), LAMBDA converted :
        IF ~getNeedParsedSqlFromCtx(c)
        THEN [sql |-> converted, args |-> args, err |-> NilErr]
        ELSE With(filterTypePattern(TrimSpace(converted)), LAMBDA modeRes :
            IF Len(modeRes) = 0
            THEN [sql |-> converted, args |-> args, err |-> NilErr]
            ELSE IF ToUpper(modeRes) = kwUPDATE
            THEN [sql |-> ReplaceUpdateFrom(converted, 1), args |-> args, err |-> NilErr]
            ELSE IF ToUpper(modeRes) = kwDELETE
            THEN [sql |-> ReplaceDeleteFrom(converted, 1), args |-> args, err |-> NilErr]
            ELSE [sql |-> converted, args |-> args, err |-> NilErr]))

(***************************************************************************)
(* PostgreSQL Driver.DoFilter.                                             *)
(***************************************************************************)
kwJsonb == <<":",":","j","s","o","n","b">>
kwLimit == <<" ","L","I","M","I","T"," ">>

\* `(::jsonb([^\w\d]*)\$\d)` matched at i.  [^\w\d]* takes the whole run of
\* non-word characters and gives back its last character when that is a '$'
\* followed by a digit; lo..hi-1 is match[2].
jsonbPattern(s, i) ==
    IF ~HasAt(s, i, kwJsonb) THEN NoMatch
    ELSE With(RunEnd(s, i + Len(kwJsonb), IsNonWord), LAMBDA r :
            IF /\ r > i + Len(kwJsonb)
               /\ s[r - 1] = "$"
               /\ r <= Len(s)
               /\ IsDigit(s[r])
            THEN [ok |-> TRUE, end |-> r + 1, lo |-> i + Len(kwJsonb), hi |-> r - 1]
            ELSE NoMatch)

\* func(match []string) string { return fmt.Sprintf(`::jsonb%s?`, match[2]) }
JsonbReplacement(s, m) == kwJsonb \o Slice(s, m.lo, m.hi) \o <<"?">>

RECURSIVE ReplaceJsonbFrom(_, _)
ReplaceJsonbFrom(s, i) ==
    With(FirstFrom(s, i, LAMBDA k : jsonbPattern(s, k).ok),
         LAMBDA k :
            IF k = 0 THEN SubSeq(s, i, Len(s))
            ELSE With(jsonbPattern(s, k),
                      LAMBDA m : SubSeq(s, i, k - 1) \o JsonbReplacement(s, m) \o ReplaceJsonbFrom(s, m.end)))

\* ` LIMIT (\d+),\s*(\d+)` matched at i: lo..hi-1 is $1, lo2..hi2-1 is $2
NoLimitMatch == [ok |-> FALSE, end |-> 0, lo |-> 0, hi |-> 0, lo2 |-> 0, hi2 |-> 0]

limitPattern(s, i) ==
    IF ~HasAt(s, i, kwLimit) THEN NoLimitMatch
    ELSE With(RunEnd(s, i + Len(kwLimit), IsDigit), LAMBDA d1 :
         With(IF d1 > Len(s) THEN d1 ELSE RunEnd(s, d1 + 1, IsSpace), LAMBDA sp :
         With(RunEnd(s, sp, IsDigit), LAMBDA d2 :
            IF /\ d1 > i + Len(kwLimit)
               /\ d1 <= Len(s)
               /\ s[d1] = ","
               /\ d2 > sp
            THEN [ok |-> TRUE, end |-> d2, lo |-> i + Len(kwLimit), hi |-> d1,
                  lo2 |-> sp, hi2 |-> d2]
            ELSE NoLimitMatch)))

\* a template that keeps the two integers in place: ` LIMIT $1 OFFSET $2`
LimitKeptInPlace(s, m) ==
    kwLimit \o Slice(s, m.lo, m.hi) \o <<" ","O","F","F","S","E","T"," ">> \o Slice(s, m.lo2, m.hi2)

\* the template ` LIMIT $2 OFFSET $1`
LimitReplacement(s, m) ==
    kwLimit \o Slice(s, m.lo2, m.hi2) \o <<" ","O","F","F","S","E","T"," ">> \o Slice(s, m.lo, m.hi)

RECURSIVE ReplaceLimitFrom(_, _)
ReplaceLimitFrom(s, i) ==
    With(FirstFrom(s, i, LAMBDA k : limitPattern(s, k).ok),
         LAMBDA k :
            IF k = 0 THEN SubSeq(s, i, Len(s))
            ELSE With(limitPattern(s, k),
                      LAMBDA m : SubSeq(s, i, k - 1) \o LimitReplacement(s, m) \o ReplaceLimitFrom(s, m.end)))

\* gdb.Core.DoFilter: hands the statement and its arguments back unchanged,
\* or fails
CoreDoFilter(sql, args, fails) ==
    IF fails THEN [sql |-> << >>, args |-> << >>, err |-> Err("DoFilterError", << >>)]
    ELSE [sql |-> sql, args |-> args, err |-> NilErr]

PgDoFilter(sql, args, coreFails) ==
    With(ConvertPlaceholder(sql), LAMBDA converted :
    With(ReplaceJsonbFrom(converted, 1), LAMBDA jsonbDone :
    With(ReplaceLimitFrom(jsonbDone, 1), LAMBDA limitDone :
        CoreDoFilter(limitDone, args, coreFails))))

(***************************************************************************)
(* The statements handed to the ClickHouse DoFilter.  A statement is kept  *)
(* with its parts: leading white space, verb (possibly in lower case),     *)
(* table, assignment (UPDATE), k bound conditions and one more condition.  *)
(***************************************************************************)
Tables == {<<"t">>, <<"t","a","b">>, <<"d","b",".","t","a","b">>}
Leads == {<< >>, <<" ">>}
Verbs == {"UPDATE", "DELETE", "SELECT"}
Assigns == {<<"a","=","?">>, <<"a","=","1">>}
ExtraConds == {<< >>, <<"1","=","1">>, <<"n","=","'","D","E","L","E","T","E"," ","F","R","O","M"," ","x","x","'">>, <<"n","=","'","U","P","D","A","T","E"," ","x","x"," ","S","E","T","'">>, <<"d","e","l","e","t","e","d","_","a","t","=","0">>}
BoundCond == <<"c","=","?">>

ToLowerChar(c) ==
    IF c \in UpperSet
    THEN LowerLetters[CHOOSE i \in 1..Len(UpperLetters) : UpperLetters[i] = c]
    ELSE c
ToLower(s) == [i \in 1..Len(s) |-> ToLowerChar(s[i])]

RECURSIVE Join(_, _)
Join(items, sep) ==
    IF Len(items) = 0 THEN << >>
    ELSE IF Len(items) = 1 THEN items[1]
    ELSE items[1] \o sep \o Join(Tail(items), sep)

\* the condition string of k bound conditions and the extra one
Condition(k, extra) ==
    LET items == [i \in 1..k |-> BoundCond] \o (IF extra = << >> THEN << >> ELSE <<extra>>)
    IN  IF Len(items) = 0 THEN << >> ELSE <<" ","W","H","E","R","E"," ">> \o Join(items, <<" ","A","N","D"," ">>)

\* the words that open a statement of the verb, up to the table
VerbPhrase(verb, lower) ==
    LET w == CASE verb = "UPDATE" -> <<"U","P","D","A","T","E"," ">>
               [] verb = "DELETE" -> <<"D","E","L","E","T","E"," ","F","R","O","M"," ">>
               [] OTHER -> <<"S","E","L","E","C","T"," ","*"," ","F","R","O","M"," ">>
    IN  IF lower THEN ToLower(w) ELSE w

SetPhrase(verb, lower, assign) ==
    IF verb = "UPDATE"
    THEN (IF lower THEN <<" ","s","e","t"," ">> ELSE <<" ","S","E","T"," ">>) \o assign
    ELSE << >>

\* everything of the statement after the table
Rest(p) == SetPhrase(p.verb, p.lower, p.assign) \o Condition(p.k, p.extra)

StatementText(p) == p.lead \o VerbPhrase(p.verb, p.lower) \o p.table \o Rest(p)

\* statements that vary in content: every table, assignment, number of bound
\* conditions and extra condition
ContentStatements ==
    [lead : {<< >>}, verb : Verbs, lower : {FALSE}, table : Tables,
     assign : Assigns, k : 0..MaxPlaceholders, extra : ExtraConds]

\* statements that vary in shape: leading white space and letter case
ShapeStatements ==
    [lead : Leads, verb : Verbs, lower : BOOLEAN, table : Tables,
     assign : {<<"a","=","?">>}, k : {1}, extra : {<< >>, <<"d","e","l","e","t","e","d","_","a","t","=","0">>}]

ChStatements ==
    {p \in ContentStatements \cup ShapeStatements : p.verb # "UPDATE" => p.assign = <<"a","=","?">>}

CountOf(s, c) == Cardinality({i \in 1..Len(s) : s[i] = c})

\* the arguments bound to a statement: one per placeholder
ArgsFor(sql) == [i \in 1..CountOf(sql, "?") |-> i]

Contexts ==
    {EmptyCtx,
     [k \in {needParsedSqlInCtx} |-> TRUE],
     [k \in {"trace"} |-> TRUE]}

(***************************************************************************)
(* ClickHouse Driver.DoFilter, called directly.                            *)
(***************************************************************************)
CallChDoFilter ==
    /\ op = "none"
    /\ \E p \in ChStatements, c \in Contexts, bound \in BOOLEAN :
      \E sql \in {StatementText(p)} :
      \E args \in {IF bound THEN ArgsFor(sql) ELSE << >>} :
      \E r \in {ChDoFilter(c, sql, args)} :
        /\ op' = "ChDoFilter"
        /\ ctxIn' = c
        /\ ctx' = c
        /\ in' = [parts |-> p, sql |-> sql, args |-> args]
        /\ out' = Out(r.sql, r.args, NilResult, r.err)
        /\ events' = << >>
    /\ UNCHANGED <<pc, idx>>

(***************************************************************************)
(* gdb.Core.DoUpdate and gdb.Core.DoDelete: build the canonical statement  *)
(* and run it through the driver's DoFilter under the context they were    *)
(* given, then commit it on the link.                                      *)
(***************************************************************************)
CoreDoUpdate(c, table, assign, k, extra) ==
    With([lead |-> << >>, verb |-> "UPDATE", lower |-> FALSE, table |-> table,
          assign |-> assign, k |-> k, extra |-> extra], LAMBDA p :
    With(StatementText(p), LAMBDA sql :
    With(ArgsFor(sql), LAMBDA args :
        [parts |-> p, sql |-> sql, args |-> args, filtered |-> ChDoFilter(c, sql, args)])))

CoreDoDelete(c, table, k, extra) ==
    With([lead |-> << >>, verb |-> "DELETE", lower |-> FALSE, table |-> table,
          assign |-> <<"a","=","?">>, k |-> k, extra |-> extra], LAMBDA p :
    With(StatementText(p), LAMBDA sql :
    With(ArgsFor(sql), LAMBDA args :
        [parts |-> p, sql |-> sql, args |-> args, filtered |-> ChDoFilter(c, sql, args)])))

\* Driver.DoUpdate
ChDoUpdate ==
    /\ op = "none"
    /\ \E c \in Contexts, table \in Tables, assign \in Assigns,
          k \in 0..MaxPlaceholders, extra \in ExtraConds :
      \E c1 \in {injectNeedParsedSql(c)} :
      \E r \in {CoreDoUpdate(c1, table, assign, k, extra)} :
        /\ op' = "ChDoUpdate"
        /\ ctxIn' = c
        /\ ctx' = c1
        /\ in' = [parts |-> r.parts, sql |-> r.sql, args |-> r.args]
        /\ out' = Out(r.filtered.sql, r.filtered.args, NilResult, r.filtered.err)
        /\ events' = <<Event("DoCommit", r.filtered.sql, r.filtered.args, TRUE)>>
    /\ UNCHANGED <<pc, idx>>

\* Driver.DoDelete
ChDoDelete ==
    /\ op = "none"
    /\ \E c \in Contexts, table \in Tables, k \in 0..MaxPlaceholders, extra \in ExtraConds :
      \E c1 \in {injectNeedParsedSql(c)} :
      \E r \in {CoreDoDelete(c1, table, k, extra)} :
        /\ op' = "ChDoDelete"
        /\ ctxIn' = c
        /\ ctx' = c1
        /\ in' = [parts |-> r.parts, sql |-> r.sql, args |-> r.args]
        /\ out' = Out(r.filtered.sql, r.filtered.args, NilResult, r.filtered.err)
        /\ events' = <<Event("DoCommit", r.filtered.sql, r.filtered.args, TRUE)>>
    /\ UNCHANGED <<pc, idx>>

(***************************************************************************)
(* The operations the ClickHouse driver declares unsupported: what each    *)
(* returns and the collaborator calls it makes.                            *)
(***************************************************************************)
Returned(result, err, calls) == [result |-> result, err |-> err, calls |-> calls]

\* an InsertIgnore that reaches the link before it gives up
InsertIgnoreOnLink ==
    Returned(NilResult, errUnsupportedInsertIgnore, <<Event("DoCommit", << >>, << >>, FALSE)>>)

InsertIgnore == Returned(NilResult, errUnsupportedInsertIgnore, << >>)
InsertAndGetId == Returned(NilResult, errUnsupportedInsertGetId, << >>)
Replace == Returned(NilResult, errUnsupportedReplace, << >>)
Begin == Returned(NilResult, errUnsupportedBegin, << >>)
Transaction == Returned(NilResult, errUnsupportedTransaction, << >>)

UnsupportedOps == {"InsertIgnore", "InsertAndGetId", "Replace", "Begin", "Transaction"}

Unsupported(name) ==
    CASE name = "InsertIgnore" -> InsertIgnore
      [] name = "InsertAndGetId" -> InsertAndGetId
      [] name = "Replace" -> Replace
      [] name = "Begin" -> Begin
      [] name = "Transaction" -> Transaction

Batches == UNION {[1..n -> {"x", "y"}] : n \in 1..MaxRows}

CallUnsupported ==
    /\ op = "none"
    /\ \E name \in UnsupportedOps, c \in Contexts, table \in Tables, data \in Batches :
      \E r \in {Unsupported(name)} :
        /\ op' = name
        /\ ctxIn' = c
        /\ ctx' = c
        /\ in' = [table |-> table, data |-> data]
        /\ out' = Out(<< >>, << >>, r.result, r.err)
        /\ events' = r.calls
    /\ UNCHANGED <<pc, idx>>

(***************************************************************************)
(* ClickHouse Driver.DoInsert, one collaborator call per step.  out.result *)
(* and out.err are the named results of the function; idx is the loop        *)
(* counter (rows are numbered from 1 here).                                *)
(***************************************************************************)
\* fmt.Sprintf("INSERT INTO %s(%s) VALUES (%s)", ...) for rows of one field v
InsertSql(table) == <<"I","N","S","E","R","T"," ","I","N","T","O"," ">> \o table \o <<"(","v",")"," ","V","A","L","U","E","S"," ","(","?",")">>

ExecError(k) == Err("ExecError", Itoa(k))

\* entry: d.Core.Begin(ctx)
ChDoInsertBegin ==
    /\ op = "none"
    /\ \E c \in {EmptyCtx}, table \in {<<"t","a","b">>}, list \in Batches, ok \in BOOLEAN :
        /\ op' = "ChDoInsert"
        /\ ctxIn' = c
        /\ ctx' = c
        /\ in' = [table |-> table, list |-> list]
        /\ events' = <<Event("Begin", << >>, << >>, ok)>>
        /\ out' = Out(<< >>, << >>, NilResult, IF ok THEN NilErr ELSE Err("BeginError", << >>))
        /\ pc' = IF ok THEN "prepare" ELSE "done"
        /\ idx' = 0

\* stmt, err = tx.Prepare(...)
ChDoInsertPrepare ==
    /\ pc = "prepare"
    /\ \E ok \in BOOLEAN :
        /\ events' = Append(events, Event("Prepare", InsertSql(in.table), << >>, ok))
        /\ out' = [out EXCEPT !.err = IF ok THEN NilErr ELSE Err("PrepareError", << >>)]
        /\ pc' = IF ok THEN "exec" ELSE "defer"
    /\ UNCHANGED <<op, ctxIn, ctx, in, idx>>

\* a loop that goes on to the next row after a row failed
ChDoInsertExecOn ==
    /\ pc = "exec"
    /\ idx < Len(in.list)
    /\ \E ok \in BOOLEAN :
        /\ events' = Append(events, Event("Exec", Itoa(idx + 1), <<in.list[idx + 1]>>, ok))
        /\ out' = [out EXCEPT !.result = IF ok THEN [NilResult EXCEPT !.kind = "exec", !.affected = 1]
                                         ELSE NilResult,
                              !.err = IF ok THEN NilErr ELSE ExecError(idx + 1)]
        /\ pc' = "exec"
        /\ idx' = idx + 1
    /\ UNCHANGED <<op, ctxIn, ctx, in>>

\* result, err = stmt.ExecContext(ctx, params...) for row idx + 1
ChDoInsertExec ==
    /\ pc = "exec"
    /\ idx < Len(in.list)
    /\ \E ok \in BOOLEAN :
        /\ events' = Append(events, Event("Exec", Itoa(idx + 1), <<in.list[idx + 1]>>, ok))
        /\ out' = [out EXCEPT !.result = IF ok THEN [NilResult EXCEPT !.kind = "exec", !.affected = 1]
                                         ELSE NilResult,
                              !.err = IF ok THEN NilErr ELSE ExecError(idx + 1)]
        /\ pc' = IF ok THEN "exec" ELSE "defer"
        /\ idx' = IF ok THEN idx + 1 ELSE idx
    /\ UNCHANGED <<op, ctxIn, ctx, in>>

\* a deferred function that may run while rows remain
ChDoInsertDeferEarly ==
    /\ pc \in {"defer", "exec"}
    /\ \E ok \in BOOLEAN :
        events' = Append(events,
                         Event(IF out.err = NilErr THEN "Commit" ELSE "Rollback", << >>, << >>, ok))
    /\ pc' = "done"
    /\ UNCHANGED <<op, ctxIn, ctx, in, out, idx>>

\* the deferred function, run when DoInsert returns after Begin succeeded
ChDoInsertDefer ==
    /\ \/ pc = "defer"
       \/ (pc = "exec" /\ idx >= Len(in.list))
    /\ \E ok \in BOOLEAN :
        events' = Append(events,
                         Event(IF out.err = NilErr THEN "Commit" ELSE "Rollback", << >>, << >>, ok))
    /\ pc' = "done"
    /\ UNCHANGED <<op, ctxIn, ctx, in, out, idx>>

(***************************************************************************)
(* The statements handed to the PostgreSQL DoFilter: a SELECT whose        *)
(* conditions are drawn from four kinds, an optional pagination clause and *)
(* an optional tail.                                                       *)
(***************************************************************************)
MaxItems == 3          \* conditions per generated SELECT

ItemKinds == {"B", "J", "JB", "N9"}

ItemText(kind) ==
    CASE kind = "B" -> <<"c","=","?">>                          \* a bound parameter
      [] kind = "J" -> <<"d",":",":","j","s","o","n","b"," ","?"," ","'","k","'">>               \* the jsonb operator ?
      [] kind = "JB" -> <<"d",":",":","j","s","o","n","b"," ","@",">"," ","?">>               \* a bound parameter after a cast
      [] kind = "N9" -> <<"c"," ","I","N"," ","(","?",",","?",",","?",",","?",",","?",",","?",",","?",",","?",",","?",")">>    \* nine bound parameters

\* the number of bound parameters of a condition
ItemBound(kind) == CASE kind = "J" -> 0 [] kind = "N9" -> 9 [] OTHER -> 1

NoLimit == [form |-> "none", a |-> << >>, ws |-> << >>, b |-> << >>]
Limits ==
    {NoLimit,
     [form |-> "pair", a |-> <<"1","0">>, ws |-> << >>, b |-> <<"5">>],
     [form |-> "pair", a |-> <<"0">>, ws |-> <<" ">>, b |-> <<"2","0">>],
     [form |-> "single", a |-> << >>, ws |-> << >>, b |-> <<"5">>]}

LimitText(l) ==
    CASE l.form = "none" -> << >>
      [] l.form = "pair" -> <<" ","L","I","M","I","T"," ">> \o l.a \o <<",">> \o l.ws \o l.b
      [] l.form = "single" -> <<" ","L","I","M","I","T"," ">> \o l.b

UnionTail == <<" ","U","N","I","O","N"," ","A","L","L"," ","S","E","L","E","C","T"," ","*"," ","F","R","O","M"," ","u"," ","L","I","M","I","T"," ","1",",","2">>
PgTails == {<< >>, <<" ","F","O","R"," ","U","P","D","A","T","E">>, UnionTail}

PgHead(items) ==
    <<"S","E","L","E","C","T"," ","*"," ","F","R","O","M"," ","t","a","b">> \o
    (IF Len(items) = 0 THEN << >>
     ELSE <<" ","W","H","E","R","E"," ">> \o Join([j \in 1..Len(items) |-> ItemText(items[j])], <<" ","A","N","D"," ">>))

PgStatementText(p) == PgHead(p.items) \o LimitText(p.limit) \o p.tail

PgStatements ==
    [items : UNION {[1..n -> ItemKinds] : n \in 0..MaxItems}, limit : Limits, tail : PgTails]

RECURSIVE SumBound(_)
SumBound(items) ==
    IF Len(items) = 0 THEN 0 ELSE ItemBound(items[1]) + SumBound(Tail(items))

\* PostgreSQL Driver.DoFilter, called directly
CallPgDoFilter ==
    /\ op = "none"
    /\ \E p \in PgStatements, c \in {EmptyCtx}, coreFails \in BOOLEAN :
        /\ (coreFails => Len(p.items) <= 1 /\ p.limit = NoLimit)
        /\ (p.tail # << >> => p.limit.form = "pair")
        /\ \E sql \in {PgStatementText(p)} :
           \E args \in {[n \in 1..SumBound(p.items) |-> n]} :
           \E r \in {PgDoFilter(sql, args, coreFails)} :
            /\ op' = "PgDoFilter"
            /\ ctxIn' = c
            /\ ctx' = c
            /\ in' = [parts |-> p, sql |-> sql, args |-> args]
            /\ out' = Out(r.sql, r.args, NilResult, r.err)
            /\ events' = <<Event("CoreDoFilter", r.sql, r.args, ~coreFails)>>
    /\ UNCHANGED <<pc, idx>>

(***************************************************************************)
(* PostgreSQL Driver.DoInsert and Driver.DoExec.  A handler that calls     *)
(* collaborators is the set of its possible outcomes [result, err, events],*)
(* one for every way the collaborators can answer.                         *)
(***************************************************************************)
Outcome(result, err, calls) ==
    [result |-> result, err |-> err, events |-> calls, records |-> << >>]

\* an outcome of DoExec together with the records DoCommit answered
Answered(result, records, calls) ==
    [result |-> result, err |-> NilErr, events |-> calls, records |-> records]

\* gdb.TableField, as far as DoInsert and DoExec read it
Field(name, key, type) == [Name |-> name, Key |-> key, Type |-> type]
ZeroField == Field(<< >>, "", << >>)

IntegerTypes == {<<"i","n","t","4">>, <<"i","n","t","8">>}
PkTypes == IntegerTypes \cup {<<"n","u","m","e","r","i","c">>, <<"v","a","r","c","h","a","r">>, <<"p","o","i","n","t">>, <<"i","n","t","e","r","v","a","l">>}

\* what the catalog lookup d.GetCore().GetDB().TableFields(ctx, table) can
\* answer: an error, or the fields of the table
FieldSets ==
    {{}, {Field(<<"n","a","m","e">>, "", <<"v","a","r","c","h","a","r">>)},
     {Field(<<"i","d">>, "pri", <<"i","n","t","4">>), Field(<<"c","o","d","e">>, "pri", <<"v","a","r","c","h","a","r">>)}}
    \cup {{Field(<<"i","d">>, "pri", t), Field(<<"n","a","m","e">>, "", <<"v","a","r","c","h","a","r">>)} : t \in PkTypes}

TableFieldsAnswers ==
    {[err |-> Err("TableFieldsError", << >>), fields |-> {}]}
    \cup {[err |-> NilErr, fields |-> fs] : fs \in FieldSets}

\* column values of a returned record (gdb.Value)
NullValue == [kind |-> "null", n |-> 0, s |-> << >>]
IntValue(n) == [kind |-> "int", n |-> n, s |-> << >>]
TextValue(s) == [kind |-> "text", n |-> 0, s |-> s]

\* the values the backend returns for a column of the type
ValuesOfType(type) ==
    IF type \in IntegerTypes THEN {IntValue(7), IntValue(8)}
    ELSE IF type = <<"n","u","m","e","r","i","c">> THEN {TextValue(<<"7">>)}
    ELSE IF type = <<"p","o","i","n","t">> THEN {TextValue(<<"(","1",",","2",")">>)}
    ELSE {TextValue(<<"a","b">>)}

\* a record of a RETURNING insert: the key column with a value, or with
\* NULL, or no such column
RecordsOf(name, type) ==
    {[c \in {} |-> NullValue]}
    \cup {[c \in {name} |-> v] : v \in {NullValue} \cup ValuesOfType(type)}

RecordSeqs(name, type) == UNION {[1..n -> RecordsOf(name, type)] : n \in 0..MaxRecords}

RECURSIVE ParseDigits(_, _)
ParseDigits(s, acc) ==
    IF Len(s) = 0 THEN acc
    ELSE ParseDigits(Tail(s),
                     acc * 10 + (CHOOSE d \in 0..9 : DigitChars[d + 1] = Head(s)))

\* gvar.Var.Int64 (gconv.Int64) on a column value
Int64(v) ==
    CASE v.kind = "int" -> v.n
      [] v.kind = "text" ->
            IF Len(v.s) > 0 /\ \A j \in 1..Len(v.s) : IsDigit(v.s[j])
            THEN ParseDigits(v.s, 0) ELSE 0
      [] OTHER -> 0

\* pgsql.Result
Result(affected, lastInsertId, lastInsertIdError) ==
    [kind |-> "pgsql", affected |-> affected, lastInsertId |-> lastInsertId,
     lastInsertIdError |-> lastInsertIdError]

\* the sql.Result of gdb.Core.DoExec
CoreResult == [kind |-> "core", affected |-> 1, lastInsertId |-> 0, lastInsertIdError |-> NilErr]

transactionInCtx == "transaction"

\* gdb.TXFromCtx(ctx, group) != nil
TXFromCtx(c) == CtxHas(c, transactionInCtx)

NoLink == "nil"

\* DoExec, the transaction checks: the link to run on, or the error of
\* d.MasterLink()
LinkAnswers(c, link) ==
    IF link = NoLink
    THEN IF TXFromCtx(c)
         THEN {[link |-> "tx", err |-> NilErr, events |-> << >>]}
         ELSE {[link |-> "master", err |-> NilErr,
                events |-> <<Event("MasterLink", << >>, << >>, TRUE)>>],
               [link |-> NoLink, err |-> Err("MasterLinkError", << >>),
                events |-> <<Event("MasterLink", << >>, << >>, FALSE)>>]}
    ELSE IF link # "tx" /\ TXFromCtx(c)
         THEN {[link |-> "tx", err |-> NilErr, events |-> << >>]}
         ELSE {[link |-> link, err |-> NilErr, events |-> << >>]}

\* DoExec: isUseCoreDoExec after the check of internalPrimaryKeyInCtx
IsUseCoreDoExec(c) ==
    IF CtxHas(c, internalPrimaryKeyInCtx)
    THEN CtxValue(c, internalPrimaryKeyInCtx).kind # "TableField"
    ELSE TRUE

\* DoExec: pkField after the check
PkFieldOf(c) ==
    IF IsUseCoreDoExec(c) THEN ZeroField ELSE CtxValue(c, internalPrimaryKeyInCtx).field

kwInsertInto == <<"I","N","S","E","R","T"," ","I","N","T","O">>
kwReturning == <<" ","R","E","T","U","R","N","I","N","G"," ">>
kwInt == <<"i","n","t">>

\* DoExec: the insert with a primary key takes the RETURNING path
IsReturningInsert(c, sql) ==
    /\ ~IsUseCoreDoExec(c)
    /\ PkFieldOf(c).Name # << >>
    /\ Contains(sql, kwInsertInto)

\* gdb.Core.DoExec(ctx, link, sql, args...)
CoreDoExec(sql, args) ==
    {Outcome(CoreResult, NilErr, <<Event("CoreDoExec", sql, args, TRUE)>>),
     Outcome(NilResult, Err("CoreDoExecError", << >>), <<Event("CoreDoExec", sql, args, FALSE)>>)}

\* gdb.Core.FormatSqlBeforeExecuting(sql, args): statement and arguments in
\* the form the driver commits
FormatSqlBeforeExecuting(sql, args) == [sql |-> sql, args |-> args]

\* a result that reads the key of the first record
FirstRecordResult(pkField, primaryKey, records) ==
    LET affected == Len(records)
    IN  IF affected > 0
        THEN IF ~Contains(pkField.Type, kwInt)
             THEN Result(affected, 0, Err("LastInsertId is not supported by primary key type", pkField.Type))
             ELSE IF primaryKey \in DOMAIN records[1]
             THEN Result(affected, Int64(records[1][primaryKey]), NilErr)
             ELSE Result(0, 0, NilErr)
        ELSE Result(0, 0, NilErr)

\* DoExec, from `affected := len(out.Records)` on
ReturningResult(pkField, primaryKey, records) ==
    LET affected == Len(records)
    IN  IF affected > 0
        THEN IF ~Contains(pkField.Type, kwInt)
             THEN Result(affected, 0, Err("LastInsertId is not supported by primary key type", pkField.Type))
             ELSE IF primaryKey \in DOMAIN records[affected]
             THEN Result(affected, Int64(records[affected][primaryKey]), NilErr)
             ELSE Result(0, 0, NilErr)
        ELSE Result(0, 0, NilErr)

\* a call that never runs its cancelFunc
CancelNever(execTimeout) == << >>

\* the deferred cancelFunc of context.WithTimeout
Cancel(execTimeout) ==
    IF execTimeout > 0 THEN <<Event("cancel", << >>, << >>, TRUE)>> ELSE << >>

\* DoExec after the RETURNING clause is appended
ReturningInsert(c, sql, args, execTimeout) ==
    LET pkField == PkFieldOf(c)
        opened == IF execTimeout > 0 THEN <<Event("WithTimeout", << >>, << >>, TRUE)>> ELSE << >>
        formatted == FormatSqlBeforeExecuting(sql, args)
    IN  UNION {
          IF f.err # NilErr
          THEN {Outcome(NilResult, f.err,
                        opened \o <<Event("DoFilter", sql, args, FALSE)>> \o Cancel(execTimeout))}
          ELSE {Outcome(NilResult, Err("DoCommitError", << >>),
                        opened \o <<Event("DoFilter", sql, args, TRUE),
                                    Event("DoCommit", f.sql, f.args, FALSE)>> \o Cancel(execTimeout))}
               \cup
               {Answered(ReturningResult(pkField, pkField.Name, records), records,
                         opened \o <<Event("DoFilter", sql, args, TRUE),
                                     Event("DoCommit", f.sql, f.args, TRUE)>> \o Cancel(execTimeout))
                  : records \in RecordSeqs(pkField.Name, pkField.Type)}
          : f \in {PgDoFilter(formatted.sql, formatted.args, fails) : fails \in BOOLEAN}}

\* Driver.DoExec
PgDoExec(c, link, sql, args, execTimeout) ==
    UNION {
      IF l.err # NilErr THEN {Outcome(NilResult, l.err, l.events)}
      ELSE {[r EXCEPT !.events = l.events \o r.events] :
              r \in IF IsReturningInsert(c, sql)
                    THEN ReturningInsert(c, sql \o kwReturning \o PkFieldOf(c).Name, args, execTimeout)
                    ELSE CoreDoExec(sql, args)}
      : l \in LinkAnswers(c, link)}

\* gdb.Core.DoInsert(ctx, link, table, list, option): builds the INSERT
\* statement of the rows and runs it through the driver's DoExec
RECURSIVE ValueGroups(_)
ValueGroups(n) == IF n <= 1 THEN <<"(","?",")">> ELSE <<"(","?",")",",">> \o ValueGroups(n - 1)

PgInsertSql(table, list) == <<"I","N","S","E","R","T"," ","I","N","T","O"," ">> \o table \o <<"(","v",")"," ","V","A","L","U","E","S">> \o ValueGroups(Len(list))

CoreDoInsert(c, link, table, list, execTimeout) ==
    PgDoExec(c, link, PgInsertSql(table, list), list, execTimeout)

InsertOptions == {"InsertOptionDefault", "InsertOptionReplace", "InsertOptionSave", "InsertOptionIgnore"}

\* DoInsert, case gdb.InsertOptionDefault: the contexts the loop over
\* tableFields can leave (the iteration order of the map is not fixed)
PrimaryKeyContexts(c, answer) ==
    IF answer.err = NilErr /\ \E f \in answer.fields : f.Key = "pri"
    THEN {WithValue(c, internalPrimaryKeyInCtx, [kind |-> "TableField", field |-> f])
            : f \in {g \in answer.fields : g.Key = "pri"}}
    ELSE {c}

\* Driver.DoInsert: the outcomes, each with the context handed to the core
PgDoInsert(c, link, table, list, option, execTimeout) ==
    CASE option = "InsertOptionSave" ->
            {[ctx |-> c, o |-> Outcome(NilResult, Err("Save operation is not supported by pgsql driver", << >>), << >>)]}
      [] option = "InsertOptionReplace" ->
            {[ctx |-> c, o |-> Outcome(NilResult, Err("Replace operation is not supported by pgsql driver", << >>), << >>)]}
      [] option = "InsertOptionIgnore" ->
            {[ctx |-> c, o |-> Outcome(NilResult, Err("Insert ignore operation is not supported by pgsql driver", << >>), << >>)]}
      [] OTHER ->
            UNION {
              UNION {
                {[ctx |-> c1,
                  o |-> [r EXCEPT !.events =
                           <<Event("TableFields", table, << >>, answer.err = NilErr)>> \o r.events]]
                   : r \in CoreDoInsert(c1, link, table, list, execTimeout)}
                : c1 \in PrimaryKeyContexts(c, answer)}
              : answer \in TableFieldsAnswers}

(***************************************************************************)
(* The calls of the PostgreSQL driver.                                     *)
(***************************************************************************)
PgLists == {[j \in 1..n |-> "x"] : n \in 1..MaxRows}

CallPgDoInsert ==
    /\ op = "none"
    /\ \E c \in {EmptyCtx}, option \in InsertOptions, list \in PgLists, execTimeout \in {0, 5} :
       \E r \in PgDoInsert(c, "link", <<"t","a","b">>, list, option, execTimeout) :
        /\ op' = "PgDoInsert"
        /\ ctxIn' = c
        /\ ctx' = r.ctx
        /\ in' = [link |-> "link", table |-> <<"t","a","b">>, list |-> list, option |-> option,
                  sql |-> PgInsertSql(<<"t","a","b">>, list), args |-> list, execTimeout |-> execTimeout]
        /\ out' = [Out(<< >>, << >>, r.o.result, r.o.err) EXCEPT !.records = r.o.records]
        /\ events' = r.o.events
    /\ UNCHANGED <<pc, idx>>

\* the contexts DoExec is called with: with or without a transaction, with
\* or without a primary key, which may be no TableField or one without name
PgExecContexts ==
    LET bases == {EmptyCtx, [k \in {transactionInCtx} |-> TRUE]}
        pks == {[kind |-> "other", field |-> ZeroField], [kind |-> "TableField", field |-> ZeroField]}
               \cup {[kind |-> "TableField", field |-> Field(<<"i","d">>, "pri", t)] : t \in PkTypes}
    IN  bases \cup {WithValue(b, internalPrimaryKeyInCtx, pk) : b \in bases, pk \in pks}

PgExecStatements ==
    {<<"I","N","S","E","R","T"," ","I","N","T","O"," ","t","a","b","(","v",")"," ","V","A","L","U","E","S","(","?",")">>, <<"i","n","s","e","r","t"," ","i","n","t","o"," ","t","a","b","(","v",")"," ","v","a","l","u","e","s","(","?",")">>, <<"U","P","D","A","T","E"," ","t","a","b"," ","S","E","T"," ","v","=","?">>}

CallPgDoExec ==
    /\ op = "none"
    /\ \E c \in PgExecContexts, link \in {NoLink, "link", "tx"}, sql \in PgExecStatements,
          execTimeout \in {0, 5} :
       \E r \in PgDoExec(c, link, sql, <<"x">>, execTimeout) :
        /\ op' = "PgDoExec"
        /\ ctxIn' = c
        /\ ctx' = c
        /\ in' = [link |-> link, sql |-> sql, args |-> <<"x">>, execTimeout |-> execTimeout]
        /\ out' = [Out(<< >>, << >>, r.result, r.err) EXCEPT !.records = r.records]
        /\ events' = r.events
    /\ UNCHANGED <<pc, idx>>

(***************************************************************************)
(* ClickHouse Driver.ConvertValueForField.  A field value is kept with its *)
(* dynamic type (shape), whether it is a nil pointer, its content n (for a *)
(* time the instant, 0 being the zero time) and, for a driver.Valuer,      *)
(* whether its Value method fails.                                         *)
(***************************************************************************)
FieldValue(shape, isNil, n, fails) == [shape |-> shape, isNil |-> isNil, n |-> n, fails |-> fails]

\* the nil interface value
NilValue == FieldValue("nil", TRUE, 0, FALSE)

TimeShapes == {"time.Time", "*time.Time", "gtime.Time", "*gtime.Time"}
PointerShapes == {"*time.Time", "*gtime.Time", "*decimal.Decimal"}
DecimalShapes == {"decimal.Decimal", "*decimal.Decimal"}

\* shapes of the default branch: a type with a Value method, and one without
ValuerShapes == {"valuer"}
PlainShapes == {"string"}

Instants == 0..2
Contents == 0..1

\* the values ConvertValueForField is called with
FieldValues ==
    {NilValue}
    \cup {FieldValue(s, FALSE, t, FALSE) : s \in TimeShapes, t \in Instants}
    \cup {FieldValue(s, TRUE, 0, FALSE) : s \in PointerShapes}
    \cup {FieldValue(s, FALSE, n, FALSE) : s \in DecimalShapes \cup {"uuid.UUID"} \cup PlainShapes,
                                           n \in Contents}
    \cup {FieldValue(s, FALSE, n, f) : s \in ValuerShapes, n \in Contents, f \in BOOLEAN}

\* time.Time.IsZero, and gtime.Time.IsZero on a value or non-nil pointer
IsZero(v) == v.n = 0

\* itemValue.Time of a gtime.Time; *itemValue of a *decimal.Decimal
TimeOf(v) == FieldValue("time.Time", FALSE, v.n, FALSE)
Deref(v) == FieldValue("decimal.Decimal", FALSE, v.n, FALSE)

\* valuer.Value(): the rendered value, or an error
ValuerValue(v) ==
    IF v.fails THEN [value |-> NilValue, err |-> Err("ValuerError", << >>)]
    ELSE [value |-> FieldValue("driver.Value", FALSE, v.n, FALSE), err |-> NilErr]

Converted(value) == [value |-> value, err |-> NilErr]

\* a default branch that commits every value as it is
ConvertDefaultRaw(v) == Converted(v)

\* ConvertValueForField, the default branch of the type switch
ConvertDefault(v) ==
    IF v.shape \notin ValuerShapes THEN Converted(v)
    ELSE IF ValuerValue(v).err # NilErr
         THEN [value |-> NilValue, err |-> ValuerValue(v).err]
         ELSE Converted(ValuerValue(v).value)

\* Driver.ConvertValueForField
ConvertValueForField(fieldType, fieldValue) ==
    CASE fieldValue.shape = "time.Time" ->
            IF IsZero(fieldValue) THEN Converted(NilValue) ELSE Converted(fieldValue)
      [] fieldValue.shape = "uuid.UUID" -> Converted(fieldValue)
      [] fieldValue.shape = "*time.Time" ->
            IF fieldValue.isNil \/ IsZero(fieldValue) THEN Converted(NilValue)
            ELSE Converted(fieldValue)
      [] fieldValue.shape = "gtime.Time" ->
            IF IsZero(fieldValue) THEN Converted(NilValue) ELSE Converted(TimeOf(fieldValue))
      [] fieldValue.shape = "*gtime.Time" ->
            IF ~fieldValue.isNil THEN Converted(TimeOf(fieldValue))
            ELSE IF fieldValue.isNil \/ IsZero(fieldValue) THEN Converted(NilValue)
            ELSE Converted(fieldValue)
      [] fieldValue.shape = "decimal.Decimal" -> Converted(fieldValue)
      [] fieldValue.shape = "*decimal.Decimal" ->
            IF ~fieldValue.isNil THEN Converted(Deref(fieldValue)) ELSE Converted(NilValue)
      [] OTHER -> ConvertDefault(fieldValue)

FieldTypes == {<<"D","a","t","e","T","i","m","e">>, <<"S","t","r","i","n","g">>}

CallConvertValueForField ==
    /\ op = "none"
    /\ \E fieldType \in FieldTypes, fieldValue \in FieldValues :
       \E r \in {ConvertValueForField(fieldType, fieldValue)} :
        /\ op' = "ConvertValueForField"
        /\ in' = [fieldType |-> fieldType, fieldValue |-> fieldValue]
        /\ out' = [value |-> r.value, err |-> r.err]
        /\ events' = << >>
    /\ UNCHANGED <<pc, idx, ctxIn, ctx>>

(***************************************************************************)
(* ClickHouse Driver.TableFields.  The catalog result is a sequence of     *)
(* rows [name, position, type, default, comment].                          *)
(***************************************************************************)
MaxColumns == 3        \* rows of a catalog result

kwNullable == <<"N","u","l","l","a","b","l","e","(">>

\* `^Nullable\((.*?)\)` on a type: the lazy group ends at the first ')'
nullablePattern(t) ==
    IF ~HasAt(t, 1, kwNullable) THEN [ok |-> FALSE, inner |-> << >>]
    ELSE With(FirstFrom(t, Len(kwNullable) + 1, LAMBDA k : t[k] = ")"), LAMBDA k :
            IF k = 0 THEN [ok |-> FALSE, inner |-> << >>]
            ELSE [ok |-> TRUE, inner |-> Slice(t, Len(kwNullable) + 1, k)])

\* gdb.TableField as the ClickHouse TableFields fills it
ChTableField(index, name, default, comment, type, null) ==
    [Index |-> index, Name |-> name, Default |-> default, Comment |-> comment,
     Type |-> type, Null |-> null]

\* the descriptor built from row m of result
ChFieldOfRow(result, m) ==
    With(nullablePattern(m.type), LAMBDA fieldsResult :
        ChTableField(IF result[1].position # 0 THEN m.position - 1 ELSE m.position,
                     m.name, m.default, m.comment,
                     IF fieldsResult.ok THEN fieldsResult.inner ELSE m.type,
                     fieldsResult.ok))

\* the map the loop over result leaves: a later row of a name replaces an
\* earlier one
ChFields(result) ==
    [name \in {result[j].name : j \in 1..Len(result)} |->
        ChFieldOfRow(result,
                     result[CHOOSE j \in 1..Len(result) :
                              /\ result[j].name = name
                              /\ \A l \in (j + 1)..Len(result) : result[l].name # name])]

getColumnsSql(table) ==
    <<"s","e","l","e","c","t"," ","n","a","m","e",",","p","o","s","i","t","i","o","n",",","d","e","f","a","u","l","t","_","e","x","p","r","e","s","s","i","o","n",",","c","o","m","m","e","n","t",",","t","y","p","e",",","i","s","_","i","n","_","p","a","r","t","i","t","i","o","n","_","k","e","y",",","i","s","_","i","n","_","s","o","r","t","i","n","g","_","k","e","y",",","i","s","_","i","n","_","p","r","i","m","a","r","y","_","k","e","y",",","i","s","_","i","n","_","s","a","m","p","l","i","n","g","_","k","e","y"," ","f","r","o","m"," ","`","s","y","s","t","e","m","`",".","c","o","l","u","m","n","s"," ","c"," ","w","h","e","r","e"," ","`","t","a","b","l","e","`"," ","="," ","'">>
    \o table \o <<"'">>

\* Driver.TableFields: fields, err and the calls made
ChTableFields(table, linkOk, selectOk, result) ==
    IF ~linkOk
    THEN [fields |-> << >>, err |-> Err("SlaveLinkError", << >>),
          events |-> <<Event("SlaveLink", << >>, << >>, FALSE)>>]
    ELSE IF ~selectOk
    THEN [fields |-> << >>, err |-> Err("DoSelectError", << >>),
          events |-> <<Event("SlaveLink", << >>, << >>, TRUE),
                       Event("DoSelect", getColumnsSql(table), << >>, FALSE)>>]
    ELSE [fields |-> ChFields(result), err |-> NilErr,
          events |-> <<Event("SlaveLink", << >>, << >>, TRUE),
                       Event("DoSelect", getColumnsSql(table), << >>, TRUE)>>]

ChColumnTypes ==
    {<<"I","n","t","3","2">>, <<"D","e","c","i","m","a","l","(","1","0",",","2",")">>, <<"N","u","l","l","a","b","l","e","(","I","n","t","3","2",")">>, <<"N","u","l","l","a","b","l","e","(","D","e","c","i","m","a","l","(","1","0",",","2",")",")">>,
     <<"A","r","r","a","y","(","N","u","l","l","a","b","l","e","(","I","n","t","3","2",")",")">>}

ColumnNames == <<<<"a">>, <<"b">>, <<"c">>, <<"d">>>>

CatalogRow(name, position, type) ==
    [name |-> name, position |-> position, type |-> type, default |-> << >>, comment |-> << >>]

\* one column of every type, numbered from 0 or from 1
TypeResults == {<<CatalogRow(ColumnNames[1], base, t)>> : t \in ChColumnTypes, base \in 0..1}

ColumnOrders(n) == {p \in [1..n -> 1..n] : \A i, j \in 1..n : p[i] = p[j] => i = j}

\* n columns numbered from base, returned in any order
OrderResults ==
    UNION {{[j \in 1..n |-> CatalogRow(ColumnNames[p[j]], base + p[j] - 1, <<"I","n","t","3","2">>)]
              : p \in ColumnOrders(n), base \in 0..1} : n \in 0..MaxColumns}

ChCatalogResults == TypeResults \cup OrderResults

CallChTableFields ==
    /\ op = "none"
    /\ \E result \in ChCatalogResults, linkOk \in BOOLEAN, selectOk \in BOOLEAN :
        /\ (~linkOk \/ ~selectOk) => result = << >>
        /\ \E r \in {ChTableFields(<<"t","a","b">>, linkOk, selectOk, result)} :
            /\ op' = "ChTableFields"
            /\ in' = [table |-> <<"t","a","b">>, result |-> result]
            /\ out' = [fields |-> r.fields, err |-> r.err]
            /\ events' = r.events
    /\ UNCHANGED <<pc, idx, ctxIn, ctx>>

(***************************************************************************)
(* pgsql Driver.TableFields.  The catalog result is a sequence of rows     *)
(* [field, type, null, key, default_value, comment], and may hold several  *)
(* rows of one column.                                                     *)
(***************************************************************************)
\* gdb.TableField as the pgsql TableFields fills it from row m
PgTableField(index, m) ==
    [Index |-> index, Name |-> m.field, Type |-> m.type, Null |-> ~m.null,
     Key |-> m.key, Default |-> m.default_value, Comment |-> m.comment]

\* index after a row of the loop: a skipped duplicate leaves it
PgLoopIndexAlways(fields, m, index) == index + 1

PgLoopIndex(fields, m, index) ==
    IF m.field \in DOMAIN fields THEN index ELSE index + 1

\* fields after a row of the loop
PgLoopFields(fields, m, index) ==
    IF m.field \in DOMAIN fields THEN fields
    ELSE fields @@ (m.field :> PgTableField(index, m))

RECURSIVE PgFieldsFrom(_, _, _, _)
\* the loop over result from row j on
PgFieldsFrom(result, j, fields, index) ==
    IF j > Len(result) THEN fields
    ELSE PgFieldsFrom(result, j + 1,
                      PgLoopFields(fields, result[j], index),
                      PgLoopIndex(fields, result[j], index))

structureSql(table) ==
    <<"S","E","L","E","C","T"," ","a",".","a","t","t","n","a","m","e"," ","A","S"," ","f","i","e","l","d",","," ","t",".","t","y","p","n","a","m","e"," ","A","S"," ","t","y","p","e",",","a",".","a","t","t","n","o","t","n","u","l","l"," ","a","s"," ","n","u","l","l",","," ","(","c","a","s","e"," ","w","h","e","n"," ","d",".","c","o","n","t","y","p","e"," ","i","s"," ","n","o","t"," ","n","u","l","l"," ","t","h","e","n"," ","'","p","r","i","'"," ","e","l","s","e"," ","'","'"," ","e","n","d",")"," ","a","s"," ","k","e","y"," ",",","i","c",".","c","o","l","u","m","n","_","d","e","f","a","u","l","t"," ","a","s"," ","d","e","f","a","u","l","t","_","v","a","l","u","e",",","b",".","d","e","s","c","r","i","p","t","i","o","n"," ","a","s"," ","c","o","m","m","e","n","t"," ",",","c","o","a","l","e","s","c","e","(","c","h","a","r","a","c","t","e","r","_","m","a","x","i","m","u","m","_","l","e","n","g","t","h",","," ","n","u","m","e","r","i","c","_","p","r","e","c","i","s","i","o","n",","," ","-","1",")"," ","a","s"," ","l","e","n","g","t","h"," ",",","n","u","m","e","r","i","c","_","s","c","a","l","e"," ","a","s"," ","s","c","a","l","e"," ","F","R","O","M"," ","p","g","_","a","t","t","r","i","b","u","t","e"," ","a"," ","l","e","f","t"," ","j","o","i","n"," ","p","g","_","c","l","a","s","s"," ","c"," ","o","n"," ","a",".","a","t","t","r","e","l","i","d"," ","="," ","c",".","o","i","d"," ","l","e","f","t"," ","j","o","i","n"," ","p","g","_","c","o","n","s","t","r","a","i","n","t"," ","d"," ","o","n"," ","d",".","c","o","n","r","e","l","i","d"," ","="," ","c",".","o","i","d"," ","a","n","d"," ","a",".","a","t","t","n","u","m"," ","="," ","d",".","c","o","n","k","e","y","[","1","]"," ","l","e","f","t"," ","j","o","i","n"," ","p","g","_","d","e","s","c","r","i","p","t","i","o","n"," ","b"," ","O","N"," ","a",".","a","t","t","r","e","l","i","d","=","b",".","o","b","j","o","i","d"," ","A","N","D"," ","a",".","a","t","t","n","u","m"," ","="," ","b",".","o","b","j","s","u","b","i","d"," ","l","e","f","t"," ","j","o","i","n"," ","p","g","_","t","y","p","e"," ","t"," ","O","N"," ","a",".","a","t","t","t","y","p","i","d"," ","="," ","t",".","o","i","d"," ","l","e","f","t"," ","j","o","i","n"," ","i","n","f","o","r","m","a","t","i","o","n","_","s","c","h","e","m","a",".","c","o","l","u","m","n","s"," ","i","c"," ","o","n"," ","i","c",".","c","o","l","u","m","n","_","n","a","m","e"," ","="," ","a",".","a","t","t","n","a","m","e"," ","a","n","d"," ","i","c",".","t","a","b","l","e","_","n","a","m","e"," ","="," ","c",".","r","e","l","n","a","m","e"," ","W","H","E","R","E"," ","c",".","r","e","l","n","a","m","e"," ","="," ","'">>
    \o table \o <<"'"," ","a","n","d"," ","a",".","a","t","t","i","s","d","r","o","p","p","e","d"," ","i","s"," ","f","a","l","s","e"," ","a","n","d"," ","a",".","a","t","t","n","u","m"," ",">"," ","0"," ","O","R","D","E","R"," ","B","Y"," ","a",".","a","t","t","n","u","m">>

\* Driver.TableFields: fields, err and the calls made
PgTableFields(table, linkOk, selectOk, result) ==
    IF ~linkOk
    THEN [fields |-> << >>, err |-> Err("SlaveLinkError", << >>),
          events |-> <<Event("SlaveLink", << >>, << >>, FALSE)>>]
    ELSE IF ~selectOk
    THEN [fields |-> << >>, err |-> Err("DoSelectError", << >>),
          events |-> <<Event("SlaveLink", << >>, << >>, TRUE),
                       Event("DoSelect", structureSql(table), << >>, FALSE)>>]
    ELSE [fields |-> PgFieldsFrom(result, 1, << >>, 0), err |-> NilErr,
          events |-> <<Event("SlaveLink", << >>, << >>, TRUE),
                       Event("DoSelect", structureSql(table), << >>, TRUE)>>]

\* rows of pg_attribute joined with its constraints
PgCatalogRows ==
    {[field |-> ColumnNames[n], type |-> v.type, null |-> v.null, key |-> v.key,
      default_value |-> << >>, comment |-> << >>]
        : n \in 1..MaxColumns,
          v \in {[type |-> <<"i","n","t","4">>, null |-> TRUE, key |-> <<"p","r","i">>],
                 [type |-> <<"v","a","r","c","h","a","r">>, null |-> FALSE, key |-> << >>]}}

PgCatalogResults == UNION {[1..n -> PgCatalogRows] : n \in 0..MaxColumns}

CallPgTableFields ==
    /\ op = "none"
    /\ \E result \in PgCatalogResults, linkOk \in BOOLEAN, selectOk \in BOOLEAN :
        /\ (~linkOk \/ ~selectOk) => result = << >>
        /\ \E r \in {PgTableFields(<<"t","a","b">>, linkOk, selectOk, result)} :
            /\ op' = "PgTableFields"
            /\ in' = [table |-> <<"t","a","b">>, result |-> result]
            /\ out' = [fields |-> r.fields, err |-> r.err]
            /\ events' = r.events
    /\ UNCHANGED <<pc, idx, ctxIn, ctx>>

(***************************************************************************)
(* pgsql Driver.Tables and Driver.version.  The answer of the probe        *)
(* `SELECT version();` is [kind, text] with kind "error", "empty" (no      *)
(* row), "noColumn" (a row without the column version) or "text".          *)
(***************************************************************************)
kwPostgreSQL == <<"P","o","s","t","g","r","e","S","Q","L"," ">>

\* `PostgreSQL (\d+\.\d+)` matches v at position i; the end of the match or 0
versionMatchEnd(v, i) ==
    IF ~HasAt(v, i, kwPostgreSQL) THEN 0
    ELSE With(RunEnd(v, i + Len(kwPostgreSQL), IsDigit), LAMBDA dot :
            IF dot = i + Len(kwPostgreSQL) \/ dot > Len(v) \/ v[dot] # "." THEN 0
            ELSE With(RunEnd(v, dot + 1, IsDigit), LAMBDA e :
                    IF e = dot + 1 THEN 0 ELSE e))

\* regexp.MustCompile(`PostgreSQL (\d+\.\d+)`).FindStringSubmatch(v)[1], or
\* "" when there is no match
versionPattern(v) ==
    With(FirstFrom(v, 1, LAMBDA i : versionMatchEnd(v, i) # 0), LAMBDA i :
        IF i = 0 THEN << >>
        ELSE Slice(v, i + Len(kwPostgreSQL), versionMatchEnd(v, i)))

\* Driver.version
version(probe) ==
    IF probe.kind = "text" THEN versionPattern(probe.text) ELSE << >>

RECURSIVE SplitDot(_)
\* strings.Split(s, ".") with every part converted by gconv.Int
SplitDot(s) ==
    With(FirstFrom(s, 1, LAMBDA k : s[k] = "."), LAMBDA k :
        With(IF k = 0 THEN s ELSE Slice(s, 1, k), LAMBDA part :
            <<IF Len(part) > 0 /\ \A j \in 1..Len(part) : IsDigit(part[j])
              THEN ParseDigits(part, 0) ELSE 0>>
            \o (IF k = 0 THEN << >> ELSE SplitDot(Slice(s, k + 1, Len(s) + 1)))))

\* gstr.CompareVersion: a leading v dropped, the shorter version padded
\* with zeros, the parts compared as numbers from the left
CompareVersion(a, b) ==
    LET array1 == SplitDot(IF Len(a) > 0 /\ a[1] = "v" THEN Tail(a) ELSE a)
        array2 == SplitDot(IF Len(b) > 0 /\ b[1] = "v" THEN Tail(b) ELSE b)
        n  == IF Len(array1) > Len(array2) THEN Len(array1) ELSE Len(array2)
        v1 == [i \in 1..n |-> IF i <= Len(array1) THEN array1[i] ELSE 0]
        v2 == [i \in 1..n |-> IF i <= Len(array2) THEN array2[i] ELSE 0]
    IN  IF v1 = v2 THEN 0
        ELSE LET i == CHOOSE i \in 1..n : v1[i] # v2[i] /\ \A j \in 1..(i - 1) : v1[j] = v2[j]
             IN  IF v1[i] > v2[i] THEN 1 ELSE -1

kwRelpartbound == <<"A","N","D"," ","c",".","r","e","l","p","a","r","t","b","o","u","n","d"," ","I","S"," ","N","U","L","L">>

\* the filter on every version
useRelpartboundAlways(v) == kwRelpartbound

\* the extra filter of the listing query for the version v
useRelpartbound(v) ==
    IF CompareVersion(v, <<"1","0">>) >= 0 THEN kwRelpartbound ELSE << >>

defaultSchema == <<"p","u","b","l","i","c">>

\* the listing query after its white space is collapsed
PgTablesQuery(usedSchema, filter) ==
    <<"S","E","L","E","C","T"," ","c",".","r","e","l","n","a","m","e"," ","F","R","O","M"," ","p","g","_","c","l","a","s","s"," ","c"," ","I","N","N","E","R"," ","J","O","I","N"," ","p","g","_","n","a","m","e","s","p","a","c","e"," ","n"," ","O","N"," ","c",".","r","e","l","n","a","m","e","s","p","a","c","e"," ","="," ","n",".","o","i","d"," ","W","H","E","R","E"," ","n",".","n","s","p","n","a","m","e"," ","="," ","'">>
    \o usedSchema \o <<"'"," ","A","N","D"," ","c",".","r","e","l","k","i","n","d"," ","I","N"," ","(","'","r","'",","," ","'","p","'",")"," ">>
    \o (IF filter = << >> THEN << >> ELSE filter \o <<" ">>)
    \o <<"O","R","D","E","R"," ","B","Y"," ","c",".","r","e","l","n","a","m","e">>

\* Driver.Tables: tables, err and the calls made
PgTables(namespace, linkOk, probe, listing) ==
    LET usedSchema == IF namespace = << >> THEN defaultSchema ELSE namespace
        query == PgTablesQuery(usedSchema, useRelpartbound(version(probe)))
        calls == <<Event("SlaveLink", << >>, << >>, TRUE),
                   Event("DoSelect", <<"S","E","L","E","C","T"," ","v","e","r","s","i","o","n","(",")",";">>, << >>, probe.kind # "error"),
                   Event("DoSelect", query, << >>, listing.ok)>>
    IN  IF ~linkOk
        THEN [tables |-> << >>, err |-> Err("SlaveLinkError", << >>),
              events |-> <<Event("SlaveLink", << >>, << >>, FALSE)>>]
        ELSE IF ~listing.ok
        THEN [tables |-> << >>, err |-> Err("DoSelectError", << >>), events |-> calls]
        ELSE [tables |-> listing.rows, err |-> NilErr, events |-> calls]

VersionTexts ==
    {<<"P","o","s","t","g","r","e","S","Q","L"," ","9",".","6",".","2","4"," ","o","n"," ","x","8","6","_","6","4">>, <<"P","o","s","t","g","r","e","S","Q","L"," ","1","0",".","0">>, <<"P","o","s","t","g","r","e","S","Q","L"," ","1","4",".","5"," ","(","D","e","b","i","a","n"," ","1","4",".","5","-","1",")">>,
     <<"E","n","t","e","r","p","r","i","s","e","D","B"," ","P","o","s","t","g","r","e","S","Q","L"," ","1","1",".","2">>, <<"P","o","s","t","g","r","e","S","Q","L"," ","1","6","b","e","t","a","1">>, <<"C","o","c","k","r","o","a","c","h","D","B"," ","C","C","L"," ","v","2","2",".","1",".","0">>,
     <<"P","o","s","t","g","r","e","S","Q","L"," ","9",".","1","0">>, << >>}

VersionProbes ==
    {[kind |-> k, text |-> << >>] : k \in {"error", "empty", "noColumn"}}
    \cup {[kind |-> "text", text |-> t] : t \in VersionTexts}

Listings ==
    {[ok |-> FALSE, rows |-> << >>]}
    \cup {[ok |-> TRUE, rows |-> rows] : rows \in {<< >>, <<<<"t","1">>>>, <<<<"t","1">>, <<"t","2">>>>}}

CallPgTables ==
    /\ op = "none"
    /\ \E namespace \in {<< >>, <<"n","s">>}, linkOk \in BOOLEAN,
          probe \in VersionProbes, listing \in Listings :
        /\ ~linkOk => (probe.kind = "error" /\ ~listing.ok /\ namespace = << >>)
        /\ \E r \in {PgTables(namespace, linkOk, probe, listing)} :
            /\ op' = "PgTables"
            /\ in' = [namespace |-> namespace, probe |-> probe, listing |-> listing]
            /\ out' = [tables |-> r.tables, err |-> r.err]
            /\ events' = r.events
    /\ UNCHANGED <<pc, idx, ctxIn, ctx>>

(***************************************************************************)
(* Reading a statement: its numbered placeholders, and its text with the   *)
(* placeholder tokens erased.                                              *)
(***************************************************************************)
\* the numbers of the '$n' tokens of s from position i on, left to right
RECURSIVE NumbersFrom(_, _)
NumbersFrom(s, i) ==
    With(FirstFrom(s, i, LAMBDA k : s[k] = "$"), LAMBDA k :
        IF k = 0 THEN << >>
        ELSE With(RunEnd(s, k + 1, IsDigit), LAMBDA e :
                <<ParseDigits(Slice(s, k + 1, e), 0)>> \o NumbersFrom(s, e)))

\* s from position i on with every placeholder token, a '?' or a '$' and
\* the digits that number it, replaced by a bare '?'
RECURSIVE ErasedFrom(_, _)
ErasedFrom(s, i) ==
    With(FirstFrom(s, i, LAMBDA k : s[k] \in {"?", "$"}), LAMBDA k :
        IF k = 0 THEN SubSeq(s, i, Len(s))
        ELSE SubSeq(s, i, k - 1) \o <<"?">> \o ErasedFrom(s, RunEnd(s, k + 1, IsDigit)))

Erased(s) == ErasedFrom(s, 1)

OneTo(n) == [j \in 1..n |-> j]

Flagged(c) == needParsedSqlInCtx \in DOMAIN c

NestedForms == {<<"n","=","'","D","E","L","E","T","E"," ","F","R","O","M"," ","x","x","'">>, <<"n","=","'","U","P","D","A","T","E"," ","x","x"," ","S","E","T","'">>}

HasCall(name) == \E j \in 1..Len(events) : events[j].call = name

(***************************************************************************)
(* C1                                                                      *)
(***************************************************************************)
\* C1: when the ClickHouse or the pgsql DoFilter is given a statement with
\* N >= 1 '?' and N arguments, the statement it returns has the i-th '?'
\* replaced by '$i', that is the numbered placeholders read 1..N from the
\* left and no '?' is left, and the arguments come back as they were given.
C1_PlaceholdersNumbered ==
    (/\ op \in {"ChDoFilter", "PgDoFilter"}
     /\ out.err = NilErr
     /\ Len(in.args) >= 1
     /\ CountOf(in.sql, "?") = Len(in.args))
    => /\ NumbersFrom(out.sql, 1) = OneTo(Len(in.args))
       /\ CountOf(out.sql, "?") = 0
       /\ out.args = in.args

(***************************************************************************)
(* C2                                                                      *)
(***************************************************************************)
\* C2: the ClickHouse DoFilter under a flagged context turns
\* 'UPDATE <table> SET <assignments>' into 'ALTER TABLE <table> UPDATE
\* <assignments>' for every table, the one-character table 't' and the
\* qualified 'db.tab' included (statements with arguments, and no second
\* UPDATE or DELETE form in the condition).
C2_UpdateRewritten ==
    (/\ op = "ChDoFilter"
     /\ Flagged(ctxIn)
     /\ in.parts.verb = "UPDATE"
     /\ in.parts.extra \notin NestedForms
     /\ Len(in.args) >= 1)
    => Erased(out.sql) =
         Erased(in.parts.lead \o <<"A","L","T","E","R"," ","T","A","B","L","E"," ">> \o in.parts.table \o <<" ","U","P","D","A","T","E"," ">>
                \o in.parts.assign \o Condition(in.parts.k, in.parts.extra))

(***************************************************************************)
(* C3                                                                      *)
(***************************************************************************)
\* C3: the ClickHouse DoFilter under a flagged context turns
\* 'DELETE FROM <table> <rest>' into 'ALTER TABLE <table> DELETE <rest>'
\* and leaves <rest> as it was apart from the placeholder numbers, also
\* when <rest> holds another 'DELETE FROM x' or 'UPDATE x SET' (tables of
\* two or more characters, statements with arguments).
C3_DeleteRestKept ==
    (/\ op = "ChDoFilter"
     /\ Flagged(ctxIn)
     /\ in.parts.verb = "DELETE"
     /\ Len(in.parts.table) >= 2
     /\ Len(in.args) >= 1)
    => Erased(out.sql) =
         Erased(in.parts.lead \o <<"A","L","T","E","R"," ","T","A","B","L","E"," ">> \o in.parts.table \o <<" ","D","E","L","E","T","E">>
                \o Condition(in.parts.k, in.parts.extra))

(***************************************************************************)
(* C4                                                                      *)
(***************************************************************************)
\* C4: (a) under a context without the NeedParsedSql flag the ClickHouse
\* DoFilter returns the statement it was given with nothing changed but
\* '?' -> '$N' (numbered 1..N when there are arguments) and returns the
\* arguments unchanged; (b) a context gains the flag only in DoUpdate and
\* DoDelete; (c) these leave a context that already has the flag as it is;
\* (d) the DoFilter nested in DoUpdate or DoDelete runs under the flagged
\* context: a statement with arguments on a table of two or more characters
\* comes out as ALTER TABLE.
C4_RewriteOnlyWhenFlagged ==
    /\ (op = "ChDoFilter" /\ ~Flagged(ctxIn))
       => /\ Erased(out.sql) = Erased(in.sql)
          /\ out.args = in.args
          /\ out.err = NilErr
          /\ Len(in.args) >= 1 =>
                /\ NumbersFrom(out.sql, 1) = OneTo(CountOf(in.sql, "?"))
                /\ CountOf(out.sql, "?") = 0
          /\ Len(in.args) = 0 => out.sql = in.sql
    /\ (Flagged(ctx) /\ ~Flagged(ctxIn)) => op \in {"ChDoUpdate", "ChDoDelete"}
    /\ (op \in {"ChDoUpdate", "ChDoDelete"})
       => /\ Flagged(ctx)
          /\ Flagged(ctxIn) => ctx = ctxIn
          /\ \A key \in DOMAIN ctxIn : key \in DOMAIN ctx /\ ctx[key] = ctxIn[key]
          /\ DOMAIN ctx = DOMAIN ctxIn \cup {needParsedSqlInCtx}
          /\ (Len(in.args) >= 1 /\ Len(in.parts.table) >= 2)
                => HasAt(out.sql, 1, <<"A","L","T","E","R"," ","T","A","B","L","E"," ">> \o in.parts.table)

\* an UPDATE with arguments on 'tab' went through DoFilter under a context
\* without the flag and kept its form, and so did a DELETE
C4_Witness ==
    /\ op = "ChDoFilter"
    /\ ~Flagged(ctxIn)
    /\ DOMAIN ctxIn # {}
    /\ in.parts.verb = "UPDATE"
    /\ in.parts.table = <<"t","a","b">>
    /\ Len(in.args) = 2
    /\ HasAt(out.sql, 1, <<"U","P","D","A","T","E"," ","t","a","b"," ","S","E","T"," ","a","=","$","1">>)

ExecAt(j) == events[j].call = "Exec"

\* C6: in the ClickHouse DoInsert, once the execution of row k has failed
\* no later row is executed and Commit is not called, before or after;
\* the error DoInsert holds and returns is the error of row k; when
\* DoInsert has returned, Rollback was called right after the failed row;
\* and no row is executed twice.
C6_FailFast ==
    op = "ChDoInsert" =>
      /\ \A j \in 1..Len(events) :
            (ExecAt(j) /\ ~events[j].ok) =>
               /\ events[j].text = Itoa(j - 2)
               /\ \A m \in 1..Len(events) : events[m].call # "Commit"
               /\ \A m \in (j + 1)..Len(events) : ~ExecAt(m)
               /\ out.err = Err("ExecError", events[j].text)
               /\ pc \in {"defer", "done"}
               /\ pc = "done" => (Len(events) = j + 1 /\ events[j + 1].call = "Rollback")
      /\ \A j, m \in 1..Len(events) :
            (ExecAt(j) /\ ExecAt(m) /\ events[j].text = events[m].text) => j = m

\* a batch of three rows whose second row failed: DoInsert has returned
\* after Begin, Prepare, row 1, row 2 and Rollback, with the error of row 2
C6_Witness ==
    /\ op = "ChDoInsert"
    /\ pc = "done"
    /\ Len(in.list) = 3
    /\ Len(events) = 5
    /\ ExecAt(4) /\ ~events[4].ok /\ events[4].text = <<"2">>
    /\ events[5].call = "Rollback"
    /\ out.err = Err("ExecError", <<"2">>)

(***************************************************************************)
(* C7                                                                      *)
(***************************************************************************)
\* C7: in the ClickHouse DoInsert the first call is Begin and there is no
\* second; Prepare is called at most once, right after a successful Begin;
\* rows are executed only after a successful Prepare, in the order of the
\* batch, each with its own values, each after the rows before it
\* succeeded; Commit is the last call and comes only after every row of
\* the batch was executed with success; an insert that returns no error
\* made exactly the calls Begin, Prepare, one Exec per row, Commit.
C7_InsertOrder ==
    op = "ChDoInsert" =>
      /\ Len(events) >= 1
      /\ events[1].call = "Begin"
      /\ \A j \in 2..Len(events) : events[j].call # "Begin"
      /\ \A j \in 1..Len(events) : events[j].call = "Prepare" => (j = 2 /\ events[1].ok)
      /\ \A j \in 1..Len(events) :
            ExecAt(j) =>
               /\ j >= 3
               /\ j - 2 <= Len(in.list)
               /\ events[2].call = "Prepare" /\ events[2].ok
               /\ events[j].text = Itoa(j - 2)
               /\ events[j].args = <<in.list[j - 2]>>
               /\ \A m \in 3..(j - 1) : ExecAt(m) /\ events[m].ok
      /\ \A j \in 1..Len(events) :
            events[j].call = "Commit" =>
               /\ j = Len(events)
               /\ j = Len(in.list) + 3
               /\ \A m \in 1..(j - 1) : events[m].ok
               /\ \A m \in 3..(j - 1) : ExecAt(m)
      /\ (pc = "done" /\ out.err = NilErr) =>
            [j \in 1..Len(events) |-> events[j].call]
              = <<"Begin", "Prepare">> \o [j \in 1..Len(in.list) |-> "Exec"] \o <<"Commit">>

\* a batch of the largest size with two different rows went through:
\* Begin, Prepare, every row, Commit
C7_Witness ==
    /\ op = "ChDoInsert"
    /\ pc = "done"
    /\ out.err = NilErr
    /\ Len(in.list) = MaxRows
    /\ in.list[1] # in.list[2]
    /\ Len(events) = MaxRows + 3
    /\ events[MaxRows + 3].call = "Commit"

(***************************************************************************)
(* C8                                                                      *)
(***************************************************************************)
\* the pagination clause as it has to come out
ExpectedLimit(l) ==
    IF l.form = "pair" THEN <<" ","L","I","M","I","T"," ">> \o l.b \o <<" ","O","F","F","S","E","T"," ">> \o l.a ELSE LimitText(l)

ExpectedTail(tail) ==
    IF tail = UnionTail THEN <<" ","U","N","I","O","N"," ","A","L","L"," ","S","E","L","E","C","T"," ","*"," ","F","R","O","M"," ","u"," ","L","I","M","I","T"," ","2"," ","O","F","F","S","E","T"," ","1">> ELSE tail

\* C8: the pgsql DoFilter returns the statement with every ' LIMIT a, b'
\* (with or without white space after the comma) turned into
\* ' LIMIT b OFFSET a' and everything else as it was given, apart from the
\* numbering of the placeholders; a ' LIMIT b' alone stays.
C8_LimitRewritten ==
    (op = "PgDoFilter" /\ out.err = NilErr) =>
      /\ Erased(out.sql) =
           Erased(PgHead(in.parts.items)) \o ExpectedLimit(in.parts.limit)
              \o ExpectedTail(in.parts.tail)
      /\ out.args = in.args

\* ' LIMIT 10,5' after two conditions came out as ' LIMIT 5 OFFSET 10',
\* and the clause of the UNION branch was rewritten as well
C8_Witness ==
    /\ op = "PgDoFilter"
    /\ out.err = NilErr
    /\ Len(in.parts.items) = 2
    /\ Contains(in.sql, <<" ","L","I","M","I","T"," ","1","0",",","5">>)
    /\ in.parts.tail = UnionTail
    /\ Contains(out.sql, <<" ","L","I","M","I","T"," ","5"," ","O","F","F","S","E","T"," ","1","0"," ","U","N","I","O","N"," ","A","L","L"," ","S","E","L","E","C","T"," ","*"," ","F","R","O","M"," ","u"," ","L","I","M","I","T"," ","2"," ","O","F","F","S","E","T"," ","1">>)

(***************************************************************************)
(* C9                                                                      *)
(***************************************************************************)
\* C9: for a statement with one jsonb operator '?' after '::jsonb' and k
\* bound placeholders elsewhere, given k arguments, the pgsql DoFilter
\* keeps the operator as a literal '?' and numbers the bound placeholders
\* $1..$k from the left, for k below and above 10.
C9_JsonOperatorKept ==
    (/\ op = "PgDoFilter"
     /\ out.err = NilErr
     /\ Cardinality({j \in 1..Len(in.parts.items) : in.parts.items[j] = "J"}) = 1
     /\ \A j \in 1..Len(in.parts.items) : in.parts.items[j] # "JB")
    => /\ CountOf(out.sql, "?") = 1
       /\ Contains(out.sql, ItemText("J"))
       /\ NumbersFrom(out.sql, 1) = OneTo(Len(in.args))
       /\ out.args = in.args

(***************************************************************************)
(* C10                                                                     *)
(***************************************************************************)
\* the context names a primary key DoExec can use
PkKnown(c) ==
    /\ internalPrimaryKeyInCtx \in DOMAIN c
    /\ c[internalPrimaryKeyInCtx].kind = "TableField"
    /\ c[internalPrimaryKeyInCtx].field.Name # << >>

PkOf(c) == c[internalPrimaryKeyInCtx].field

LinkFailed == \E j \in 1..Len(events) : events[j].call = "MasterLink" /\ ~events[j].ok

\* the calls made, without the lookups that come before the statement
StatementCalls == SelectSeq(events, LAMBDA e : e.call \notin {"TableFields", "MasterLink"})

\* the value is a number and id is that number
Reports(v, id) ==
    \/ v.kind = "int" /\ v.n = id
    \/ /\ v.kind = "text"
       /\ Len(v.s) > 0
       /\ \A j \in 1..Len(v.s) : IsDigit(v.s[j])
       /\ ParseDigits(v.s, 0) = id

\* C10 as stated: after a pgsql DoInsert that found a primary key and got
\* records back, LastInsertId is the primary-key value of the last record.
C10_LastInsertIdIsLastKey ==
    (/\ op = "PgDoInsert"
     /\ PkKnown(ctx)
     /\ out.err = NilErr
     /\ Len(out.records) > 0
     /\ PkOf(ctx).Name \in DOMAIN out.records[Len(out.records)]
     /\ out.records[Len(out.records)][PkOf(ctx).Name].kind # "null")
    => /\ out.result.lastInsertIdError = NilErr
       /\ Reports(out.records[Len(out.records)][PkOf(ctx).Name], out.result.lastInsertId)

\* C10, amended: a pgsql DoInsert whose TableFields lookup fails leaves the
\* context without a key.  With a link at hand, DoExec under a context
\* that names a primary key, on a statement containing 'INSERT INTO',
\* filters and commits the statement with ' RETURNING <key>' appended and
\* does not call the core DoExec; when records come back, a key type
\* without 'int' gives LastInsertId 0 with a not-supported error naming the
\* type and RowsAffected the number of records; a key type with 'int' gives
\* the integer key of the last record (0 for NULL or a value that is no
\* integer) and RowsAffected the number of records, or an empty result when
\* the last record lacks the key column.  In every other case the statement
\* goes to the core DoExec once, text and arguments unchanged, and its
\* answer is returned.
C10_ReturningKey ==
    /\ (op = "PgDoInsert" /\ events # << >> /\ ~events[1].ok) => ctx = ctxIn
    /\ (op = "PgDoInsert" /\ in.option # "InsertOptionDefault")
          => (events = << >> /\ out.err # NilErr /\ ctx = ctxIn)
    /\ (/\ op \in {"PgDoInsert", "PgDoExec"}
        /\ op = "PgDoInsert" => in.option = "InsertOptionDefault"
        /\ ~LinkFailed)
       => IF PkKnown(ctx) /\ Contains(in.sql, <<"I","N","S","E","R","T"," ","I","N","T","O">>)
          THEN /\ ~HasCall("CoreDoExec")
               /\ \E j \in 1..Len(events) :
                     /\ events[j].call = "DoFilter"
                     /\ events[j].text = in.sql \o <<" ","R","E","T","U","R","N","I","N","G"," ">> \o PkOf(ctx).Name
                     /\ events[j].args = in.args
               /\ \A j \in 1..Len(events) :
                     events[j].call = "DoCommit" =>
                        Erased(events[j].text) = Erased(in.sql \o <<" ","R","E","T","U","R","N","I","N","G"," ">> \o PkOf(ctx).Name)
               /\ out.err = NilErr =>
                     LET n == Len(out.records)
                         name == PkOf(ctx).Name
                     IN  IF n = 0 THEN out.result = Result(0, 0, NilErr)
                         ELSE IF ~Contains(PkOf(ctx).Type, <<"i","n","t">>)
                         THEN /\ out.result.affected = n
                              /\ out.result.lastInsertId = 0
                              /\ out.result.lastInsertIdError.msg # "nil"
                              /\ out.result.lastInsertIdError.detail = PkOf(ctx).Type
                         ELSE IF name \in DOMAIN out.records[n]
                         THEN /\ out.result.affected = n
                              /\ out.result.lastInsertIdError = NilErr
                              /\ out.result.lastInsertId =
                                   (IF out.records[n][name].kind = "int"
                                    THEN out.records[n][name].n ELSE 0)
                         ELSE out.result = Result(0, 0, NilErr)
          ELSE /\ Len(StatementCalls) = 1
               /\ StatementCalls[1].call = "CoreDoExec"
               /\ StatementCalls[1].text = in.sql
               /\ StatementCalls[1].args = in.args
               /\ StatementCalls[1].ok <=> out.err = NilErr
               /\ out.err = NilErr => out.result = CoreResult
               /\ out.records = << >>

\* a default insert on a table with an integer key got two records with
\* different keys back and reports the key of the second
C10_Witness ==
    /\ op = "PgDoInsert"
    /\ PkKnown(ctx)
    /\ PkOf(ctx).Type = <<"i","n","t","4">>
    /\ HasCall("DoCommit")
    /\ Len(out.records) = 2
    /\ out.records[1] = [c \in {<<"i","d">>} |-> IntValue(7)]
    /\ out.records[2] = [c \in {<<"i","d">>} |-> IntValue(8)]
    /\ out.result.lastInsertId = 8

(***************************************************************************)
(* C11                                                                     *)
(***************************************************************************)
\* DoExec took the RETURNING path and DoCommit answered with records
ReturnedRecords ==
    /\ op \in {"PgDoInsert", "PgDoExec"}
    /\ PkKnown(ctx)
    /\ HasCall("DoCommit")
    /\ out.err = NilErr
    /\ Len(out.records) > 0

\* C11: after a pgsql insert on the RETURNING path that got records back,
\* a primary key whose declared type is no integer type gives a Result
\* with RowsAffected the number of records and a not-supported error
\* naming the type for LastInsertId (and no error of the call); an integer
\* type gives no such error.
C11_NonIntegerKeyUnsupported ==
    ReturnedRecords =>
      IF PkOf(ctx).Type \in IntegerTypes
      THEN out.result.lastInsertIdError = NilErr
      ELSE /\ out.result.affected = Len(out.records)
           /\ out.result.lastInsertIdError # NilErr
           /\ out.result.lastInsertIdError.detail = PkOf(ctx).Type

(***************************************************************************)
(* C12                                                                     *)
(***************************************************************************)
\* C12: ConvertValueForField of the ClickHouse driver, given a timestamp
\* of any of the four shapes, returns nil when the timestamp is a nil
\* pointer or the zero time, never a zero time, and otherwise a time with
\* the instant of the input; it returns no error.
C12_ZeroTimeBindsNil ==
    (op = "ConvertValueForField" /\ in.fieldValue.shape \in TimeShapes) =>
      /\ out.err = NilErr
      /\ IF in.fieldValue.isNil \/ in.fieldValue.n = 0
         THEN out.value = NilValue
         ELSE /\ out.value.shape \in {"time.Time", "*time.Time"}
              /\ ~out.value.isNil
              /\ out.value.n = in.fieldValue.n

(***************************************************************************)
(* C13                                                                     *)
(***************************************************************************)
\* the shapes that reach the default branch of the type switch
DefaultShape(v) == v.shape \notin TimeShapes \cup DecimalShapes \cup {"uuid.UUID"}

\* what C13 says of decimals: unchanged, a pointer dereferenced, nil for nil
DecimalKept ==
    /\ in.fieldValue.shape = "decimal.Decimal" => out.value = in.fieldValue
    /\ in.fieldValue.shape = "*decimal.Decimal" =>
          IF in.fieldValue.isNil THEN out.value = NilValue
          ELSE /\ out.value.shape = "decimal.Decimal"
               /\ out.value.n = in.fieldValue.n

NullableWrapped(t) == HasAt(t, 1, kwNullable) /\ Len(t) > Len(kwNullable) /\ t[Len(t)] = ")"

\* the T of a declared type Nullable(T)
NullableInner(t) == Slice(t, Len(kwNullable) + 1, Len(t))

\* the catalog call of TableFields answered without error
ChFieldsListed == op = "ChTableFields" /\ out.err = NilErr

\* C14: ClickHouse TableFields returns, for every column declared
\* Nullable(T), whatever the inner T (a parameterised one such as
\* Decimal(10,2) included), Type = T exactly and Null = TRUE, and for
\* every column of a type that is not wrapped the Type unchanged and
\* Null = FALSE.
C14_NullableUnwrapped ==
    ChFieldsListed =>
      \A j \in 1..Len(in.result) :
        LET m == in.result[j]
            f == out.fields[m.name]
        IN  IF NullableWrapped(m.type)
            THEN f.Type = NullableInner(m.type) /\ f.Null
            ELSE f.Type = m.type /\ ~f.Null

\* the smallest native position of a catalog result
MinPosition(result) ==
    CHOOSE p \in {result[j].position : j \in 1..Len(result)} :
        \A j \in 1..Len(result) : p <= result[j].position

\* C16: ClickHouse TableFields makes positions zero-based: for a catalog
\* result whose rows come in any order and are numbered from 0 or from 1,
\* every Index is at least 0, the column of the smallest native position
\* has Index 0, and all columns of the call are shifted by one amount.
C16_ZeroBasedIndex ==
    (ChFieldsListed /\ in.result # << >>) =>
      /\ \A j \in 1..Len(in.result) : out.fields[in.result[j].name].Index >= 0
      /\ \A j \in 1..Len(in.result) :
            in.result[j].position = MinPosition(in.result) =>
                out.fields[in.result[j].name].Index = 0
      /\ \A j, l \in 1..Len(in.result) :
            in.result[j].position - out.fields[in.result[j].name].Index
              = in.result[l].position - out.fields[in.result[l].name].Index

\* the row of result in which a column name is first seen
FirstSeen(result, name) ==
    CHOOSE j \in 1..Len(result) :
        result[j].field = name /\ \A l \in 1..(j - 1) : result[l].field # name

\* C15: pgsql TableFields returns exactly one descriptor per distinct
\* column name of the catalog result: it carries the values of the row in
\* which the name is first seen, later rows of the name change nothing,
\* and the Index values are exactly 0..k-1 in first-seen order, a skipped
\* duplicate leaving no gap.
C15_FirstSeenKept ==
    (op = "PgTableFields" /\ out.err = NilErr) =>
      LET result == in.result
          names  == {result[j].field : j \in 1..Len(result)}
      IN  /\ DOMAIN out.fields = names
          /\ \A name \in names :
                LET j == FirstSeen(result, name)
                    f == out.fields[name]
                IN  /\ f.Name = name
                    /\ f.Type = result[j].type
                    /\ f.Null = ~result[j].null
                    /\ f.Key = result[j].key
                    /\ f.Index = Cardinality({result[l].field : l \in 1..(j - 1)})
          /\ {out.fields[name].Index : name \in names} = 0..(Cardinality(names) - 1)

\* a column returned twice with different values, then a second column
C15_Witness ==
    /\ op = "PgTableFields"
    /\ out.err = NilErr
    /\ Len(in.result) = 3
    /\ in.result[1].field = in.result[2].field
    /\ in.result[1].type # in.result[2].type
    /\ in.result[3].field # in.result[1].field
    /\ out.fields[in.result[1].field].Type = in.result[1].type
    /\ out.fields[in.result[3].field].Index = 1

\* the number before the first dot of a version d+.d+
MajorOf(v) == ParseDigits(Slice(v, 1, FirstFrom(v, 1, LAMBDA k : v[k] = ".")), 0)

\* Tables got its link and issued the listing query
TablesListed == op = "PgTables" /\ Len(events) = 3 /\ events[3].call = "DoSelect"

\* C17: pgsql Tables puts the filter 'c.relpartbound IS NULL' into the
\* listing query exactly when the version parsed from the answer of
\* 'SELECT version()' is at least 10; when the probe fails, returns no
\* row, or returns a text the numeric-version pattern does not match,
\* Tables does not fail because of it and issues the listing query
\* without the filter.
C17_FilterFromVersion ==
    op = "PgTables" =>
      /\ out.err # Err("SlaveLinkError", << >>) => TablesListed
      /\ TablesListed =>
          /\ Contains(events[3].text, <<"c",".","r","e","l","p","a","r","t","b","o","u","n","d"," ","I","S"," ","N","U","L","L">>)
                <=> (version(in.probe) # << >> /\ MajorOf(version(in.probe)) >= 10)
          /\ (in.probe.kind # "text" \/ ~Contains(in.probe.text, kwPostgreSQL)) =>
                ~Contains(events[3].text, <<"r","e","l","p","a","r","t","b","o","u","n","d">>)
          /\ (out.err = NilErr) <=> in.listing.ok
          /\ in.listing.ok => out.tables = in.listing.rows

\* version 14.5 gets the filter
C17_Witness ==
    /\ TablesListed
    /\ in.probe = [kind |-> "text", text |-> <<"P","o","s","t","g","r","e","S","Q","L"," ","1","4",".","5"," ","(","D","e","b","i","a","n"," ","1","4",".","5","-","1",")">>]
    /\ events[3].text = <<"S","E","L","E","C","T"," ","c",".","r","e","l","n","a","m","e"," ","F","R","O","M"," ","p","g","_","c","l","a","s","s"," ","c"," ","I","N","N","E","R"," ","J","O","I","N"," ","p","g","_","n","a","m","e","s","p","a","c","e"," ","n"," ","O","N"," ","c",".","r","e","l","n","a","m","e","s","p","a","c","e"," ","="," ","n",".","o","i","d"," ","W","H","E","R","E"," ","n",".","n","s","p","n","a","m","e"," ","="," ","'","p","u","b","l","i","c","'"," ","A","N","D"," ","c",".","r","e","l","k","i","n","d"," ","I","N"," ","(","'","r","'",","," ","'","p","'",")"," ","A","N","D"," ","c",".","r","e","l","p","a","r","t","b","o","u","n","d"," ","I","S"," ","N","U","L","L"," ","O","R","D","E","R"," ","B","Y"," ","c",".","r","e","l","n","a","m","e">>
    /\ out.err = NilErr
    /\ out.tables = <<<<"t","1">>, <<"t","2">>>>


\* the positions of the calls of one name
CallsAt(name) == {j \in 1..Len(events) : events[j].call = name}

\* C18: in pgsql DoExec, whenever an exec timeout is configured and the
\* RETURNING path derives a deadline context, the deadline is released
\* (its cancel function runs, after everything else the call does) on
\* every way out of the call: DoFilter error, DoCommit error, success.  On
\* the delegating path the driver creates no deadline.
C18_DeadlineReleased ==
    op = "PgDoExec" =>
      /\ CallsAt("WithTimeout") # {} <=>
            (in.execTimeout > 0 /\ IsReturningInsert(ctxIn, in.sql) /\ ~LinkFailed)
      /\ CallsAt("WithTimeout") # {} =>
            /\ Cardinality(CallsAt("WithTimeout")) = 1
            /\ CallsAt("cancel") = {Len(events)}
            /\ \A j \in CallsAt("WithTimeout") :
                  \A k \in CallsAt("DoFilter") \cup CallsAt("DoCommit") : j < k
            /\ \/ CallsAt("DoFilter") # {} /\ out.err # NilErr /\ CallsAt("DoCommit") = {}
               \/ CallsAt("DoCommit") # {} /\ out.err # NilErr
               \/ CallsAt("DoCommit") # {} /\ out.err = NilErr
      /\ CallsAt("CoreDoExec") # {} =>
            (CallsAt("WithTimeout") = {} /\ CallsAt("cancel") = {})

\* the statement failed in DoCommit under a deadline, which was released
C18_Witness ==
    /\ op = "PgDoExec"
    /\ in.execTimeout > 0
    /\ out.err = Err("DoCommitError", << >>)
    /\ Len(events) >= 4
    /\ events[Len(events) - 3].call = "WithTimeout"
    /\ events[Len(events) - 1].call = "DoCommit"
    /\ ~events[Len(events) - 1].ok
    /\ events[Len(events)].call = "cancel"

\* the ALTER TABLE form of the UPDATE or DELETE statement of parts p
AlterForm(p) ==
    p.lead \o <<"A","L","T","E","R"," ","T","A","B","L","E"," ">> \o p.table
    \o (IF p.verb = "UPDATE" THEN <<" ","U","P","D","A","T","E"," ">> \o p.assign ELSE <<" ","D","E","L","E","T","E">>)
    \o Condition(p.k, p.extra)

\* C19: the ClickHouse DoFilter under a flagged context rewrites every
\* statement whose trimmed text starts with UPDATE or DELETE into the
\* ALTER TABLE form whatever the number of bound arguments, none included:
\* flagged 'DELETE FROM tab WHERE 1=1' with no arguments becomes
\* 'ALTER TABLE tab DELETE WHERE 1=1' (tables of two or more characters,
\* no second UPDATE or DELETE form in the condition, one argument per '?').
C19_RewrittenWithoutArgs ==
    (/\ op = "ChDoFilter"
     /\ Flagged(ctxIn)
     /\ in.parts.verb \in {"UPDATE", "DELETE"}
     /\ Len(in.parts.table) >= 2
     /\ in.parts.extra \notin NestedForms
     /\ Len(in.args) = CountOf(in.sql, "?"))
    => Erased(out.sql) = Erased(AlterForm(in.parts))

\* C20: the ClickHouse DoFilter under a flagged context gives a statement
\* whose trimmed text does not begin with UPDATE or DELETE no rewrite and
\* no error: the statement comes back with its placeholders numbered and
\* nothing else changed, also when the word DELETE occurs later in it, in
\* any letter case, as in 'deleted_at' or in a 'DELETE FROM xx' substring.
C20_OtherStatementsPass ==
    (/\ op = "ChDoFilter"
     /\ Flagged(ctxIn)
     /\ in.parts.verb = "SELECT"
     /\ Len(in.args) = CountOf(in.sql, "?"))
    => /\ out.err = NilErr
       /\ out.args = in.args
       /\ Erased(out.sql) = Erased(in.sql)
       /\ NumbersFrom(out.sql, 1) = OneTo(Len(in.args))

\* the calls that end the transaction of a batch
Endings == CallsAt("Commit") \cup CallsAt("Rollback")

\* C21: the ClickHouse DoInsert returns a nil error only if the
\* transaction of the batch was committed successfully: after a Begin
\* that succeeded exactly one of Commit and Rollback is called, once, on
\* every path, and a Commit that fails is reported to the caller as an
\* error, not as a successful insert.
C21_CommitFailureReported ==
    (op = "ChDoInsert" /\ pc = "done") =>
      /\ Cardinality(Endings) = (IF events[1].ok THEN 1 ELSE 0)
      /\ Endings # {} => Endings = {Len(events)}
      /\ out.err = NilErr =>
            \E j \in CallsAt("Commit") : events[j].ok
      /\ \A j \in CallsAt("Commit") : ~events[j].ok => out.err # NilErr

\* C22: after a pgsql insert on the RETURNING path whose statement was
\* committed without error and returned k >= 1 records, the Result reports
\* k rows affected, for every type of the primary key and every value of
\* the key in the records, a last record whose key is absent or null
\* included; 0 rows affected are reported only when no record came back.
C22_AffectedIsRecordCount ==
    /\ ReturnedRecords => out.result.affected = Len(out.records)
    /\ (/\ op \in {"PgDoInsert", "PgDoExec"}
        /\ HasCall("DoCommit")
        /\ out.err = NilErr
        /\ out.result.affected = 0) => Len(out.records) = 0
(***************************************************************************)
(* The driver after construction, and its calls.                           *)
(***************************************************************************)
Init ==
    /\ op = "none"
    /\ pc = "done"
    /\ ctxIn = EmptyCtx
    /\ ctx = EmptyCtx
    /\ in = [sql |-> << >>, args |-> << >>]
    /\ out = NoOut
    /\ events = << >>
    /\ idx = 0

\* the caller takes what the call returned; the driver keeps nothing of it
Return ==
    /\ op # "none"
    /\ pc = "done"
    /\ op' = "none"
    /\ ctxIn' = EmptyCtx
    /\ ctx' = EmptyCtx
    /\ in' = [sql |-> << >>, args |-> << >>]
    /\ out' = NoOut
    /\ events' = << >>
    /\ idx' = 0
    /\ UNCHANGED pc

Next ==
    \/ CallChDoFilter
    \/ ChDoUpdate
    \/ ChDoDelete
    \/ CallUnsupported
    \/ ChDoInsertBegin
    \/ ChDoInsertPrepare
    \/ ChDoInsertExec
    \/ ChDoInsertDefer
    \/ CallPgDoFilter
    \/ CallPgDoInsert
    \/ CallPgDoExec
    \/ CallConvertValueForField
    \/ CallChTableFields
    \/ CallPgTableFields
    \/ CallPgTables
    \/ Return

Spec == Init /\ [][Next]_vars

====
